---------------------------- MODULE Spec2Model ----------------------------
(***************************************************************************)
(* HashPass: the server-side coordination engine.                          *)
(*                                                                         *)
(* The model follows src/src/core/state.py (SystemState), the handlers of  *)
(* src/src/api/routes.py (verify_solution, websocket_endpoint), the        *)
(* control plane of src/src/api/admin.py and the hash verifier of          *)
(* src/src/core/crypto.py.                                                 *)
(*                                                                         *)
(* Scheduling: one asyncio event loop.  A handler runs without             *)
(* interruption between two awaits that really suspend, so every action    *)
(* below is the piece of a handler between two suspension points.          *)
(*                                                                         *)
(* Conventions:                                                            *)
(*   - WebSocket objects are the numbers 1..MaxSockets, handed out in      *)
(*     order; the session token generated for socket s is the number s     *)
(*     (secrets.token_urlsafe(32) never repeats a value).                  *)
(*   - seeds are the numbers 0,1,2,...: reset_puzzle draws a fresh 128-bit *)
(*     value, modelled as the next unused number.                          *)
(*   - time.time() is the variable now, advanced by Tick.                  *)
(*   - Python's None is the number None (-1) in the Optional fields.       *)
(***************************************************************************)
EXTENDS Integers, Sequences, FiniteSets, TLC

(***************************************************************************)
(* Bounds of the model.                                                    *)
(***************************************************************************)
MaxSockets == 2
MaxIPs == 2
MaxTime == 400
TickSeconds == 400
MaxSeed == 2

None == -1

(* self.token_expiry_seconds *)
token_expiry_seconds == 300

(* HASHPASS_TARGET_TIME and HASHPASS_TARGET_TIMEOUT, seconds (defaults) *)
target_time == 75
target_timeout == 120

(* deque(maxlen=5) of solve_history; self.chart_history_max *)
solve_history_maxlen == 5
chart_history_max == 50

(* HASHPASS_ARGON2_* defaults *)
default_time_cost == 3
default_memory_cost == 65536
default_parallelism == 1

(* HASHPASS_DIFFICULTY, HASHPASS_MIN_DIFFICULTY, HASHPASS_MAX_DIFFICULTY of
   the checked configuration, on the scale of HashBits. *)
initial_difficulty == 2
initial_min_difficulty == 1
initial_max_difficulty == 3

(* A configured HASHPASS_MAX_NONCE_SPEED, nonces per 1000 s. *)
SpeedLimit == 1

(* Width of a hash in bits (256 in the code, hash_len = 32 bytes). *)
HashBits == 4

(* Verify requests, nonces and visitor ids of the checked instances. *)
MaxRequests == 2
MaxNonce == 1
Requests == 1..MaxRequests
Nonces == 0..MaxNonce

Sockets == 1..MaxSockets
IPs == 1..MaxIPs

(* admin_auth.py: failures before a lockout, and its length in seconds. *)
MAX_FAILURES == 10
LOCKOUT_SECONDS == 300
(* The step of the clock between admin requests. *)
AuthStep == 150

(* ProcessPoolExecutor objects that are ever created. *)
MaxPools == 16
PoolIds == 1..MaxPools

VARIABLES
    now,                       \* time.time()
    current_seed,              \* SystemState.current_seed
    active_miners,             \* SystemState.active_miners
    total_mining_time,         \* SystemState.total_mining_time
    last_mining_state_change,  \* SystemState.last_mining_state_change
    is_mining_active,          \* SystemState.is_mining_active
    active_connections,        \* SystemState.active_connections
    session_tokens,            \* SystemState.session_tokens
    client_hashrates,          \* SystemState.client_hashrates
    ip_connections,            \* SystemState.ip_connections
    banned_ips,                \* SystemState.banned_ips
    ws,                        \* one record per websocket_endpoint invocation
    kick_all_pc,               \* position of the kick_all handler
    difficulty,                \* SystemState.difficulty
    difficulty_float,          \* SystemState.difficulty_float, in 1/8 bit
    min_difficulty,            \* SystemState.min_difficulty
    max_difficulty,            \* SystemState.max_difficulty
    ema_solve_time,            \* SystemState.ema_solve_time, in 1/10 s
    last_solve_time,           \* SystemState.last_solve_time
    solve_history,             \* SystemState.solve_history
    solve_time_chart_history,  \* SystemState.solve_time_chart_history
    max_nonce_speed,           \* SystemState.max_nonce_speed
    hmac_secret,               \* SystemState.hmac_secret
    argon2_time_cost,          \* SystemState.argon2_time_cost
    argon2_memory_cost,        \* SystemState.argon2_memory_cost
    argon2_parallelism,        \* SystemState.argon2_parallelism
    ph,                        \* SystemState.ph: the hasher's time_cost,
                               \* memory_cost and parallelism
    target_time_min,           \* SystemState.target_time_min (None: not set)
    target_time_max,           \* SystemState.target_time_max (None: not set)
    hashrate_chart_history,    \* SystemState.hashrate_chart_history
    lock_locked,               \* SystemState.lock: held or not
    lock_waiters,              \* SystemState.lock: the tasks waiting, in order
    timeout_task,              \* SystemState.timeout_task
    wtask,                     \* the _check_timeout tasks and their positions
    req,                       \* one record per verify_solution invocation
    admin_pc,                  \* position of the admin reset_puzzle handler
    puzzle_log,                \* history: per seed, its difficulty, who retired it,
                               \* the connections at that time and the frames sent
    issued_ip,                 \* history: the ip each token was generated for
    ever_revoked,              \* history: tokens a revoke operation has marked
    failed_attempts,           \* admin_auth._failed_attempts (0: no entry)
    lockout_until,             \* admin_auth._lockout_until (0: no entry)
    admin_reply,               \* the last admin request and its HTTP status
    auth_streak,               \* history: wrong admin tokens in a row, per ip
    auth_locked_at,            \* history: when the streak reached the limit
    executor,                  \* executor._executor: None or a pool
    pools,                     \* the ProcessPoolExecutor objects and their state
    executor_call              \* the last call into executor.py and its outcome

sessionVars == <<active_connections, session_tokens, client_hashrates,
                 ip_connections, banned_ips, ws, kick_all_pc>>
timerVars == <<active_miners, total_mining_time, last_mining_state_change,
               is_mining_active>>
historyVars == <<issued_ip, ever_revoked>>
difficultyVars == <<difficulty, difficulty_float, min_difficulty,
                    max_difficulty, ema_solve_time, last_solve_time,
                    solve_history, solve_time_chart_history>>
\* Module-level state of admin_auth.py and executor.py.
authVars == <<failed_attempts, lockout_until, admin_reply, auth_streak,
              auth_locked_at>>
poolVars == <<executor, pools, executor_call>>
\* The hasher object, the target-time range and the hashrate chart.
tuningVars == <<ph, target_time_min, target_time_max, hashrate_chart_history>>
\* What only the admin endpoints, the lifespan and its loops write.
configVars == <<max_nonce_speed, hmac_secret, argon2_time_cost,
                argon2_memory_cost, argon2_parallelism, tuningVars, authVars,
                poolVars>>
lockVars == <<lock_locked, lock_waiters>>
taskVars == <<timeout_task, wtask>>
\* What the WebSocket handlers and the session control plane never write.
engineSide == <<current_seed, difficultyVars, configVars, lockVars, taskVars,
                req, admin_pc, puzzle_log>>
vars == <<now, engineSide, timerVars, sessionVars, historyVars>>

(***************************************************************************)
(* Session store: SystemState.session_tokens and its operations.           *)
(* A token slot is absent (present = FALSE) or holds the dict of           *)
(* generate_session_token; "revoked" is the key revoke_tokens_by_ip adds.  *)
(***************************************************************************)
NoToken ==
    [present |-> FALSE, websocket |-> None, ip |-> None,
     disconnected_at |-> None, is_connected |-> FALSE, revoked |-> FALSE]

generate_session_token(st, websocket, ip) ==
    [st EXCEPT ![websocket] =
        [present |-> TRUE, websocket |-> websocket, ip |-> ip,
         disconnected_at |-> None, is_connected |-> TRUE, revoked |-> FALSE]]

\* Fault variant of validate_session_token: the ip is not compared.
validate_without_ip_check(st, token, request_ip, t) ==
    IF token \notin DOMAIN st \/ ~st[token].present THEN FALSE
    ELSE IF st[token].revoked THEN FALSE
    ELSE IF ~st[token].is_connected
            /\ st[token].disconnected_at # None
            /\ t - st[token].disconnected_at > token_expiry_seconds THEN FALSE
    ELSE TRUE

\* Fault variant of validate_session_token: the revoked mark is not read.
validate_without_revoked_check(st, token, request_ip, t) ==
    IF token \notin DOMAIN st \/ ~st[token].present THEN FALSE
    ELSE IF st[token].ip # request_ip THEN FALSE
    ELSE IF ~st[token].is_connected
            /\ st[token].disconnected_at # None
            /\ t - st[token].disconnected_at > token_expiry_seconds THEN FALSE
    ELSE TRUE

validate_session_token(st, token, request_ip, t) ==
    IF token \notin DOMAIN st \/ ~st[token].present THEN FALSE
    ELSE IF st[token].revoked THEN FALSE
    ELSE IF st[token].ip # request_ip THEN FALSE
    ELSE IF ~st[token].is_connected
            /\ st[token].disconnected_at # None
            /\ t - st[token].disconnected_at > token_expiry_seconds THEN FALSE
    ELSE TRUE

revoke_session_token(st, websocket, t) ==
    [k \in DOMAIN st |->
        IF st[k].present /\ st[k].websocket = websocket
        THEN [st[k] EXCEPT !.is_connected = FALSE, !.disconnected_at = t,
                           !.websocket = None]
        ELSE st[k]]

\* Fault variant of reconnect_session_token: the websocket is not re-bound.
reconnect_without_rebind(st, token, websocket) ==
    IF token \notin DOMAIN st \/ ~st[token].present THEN st
    ELSE [st EXCEPT ![token].is_connected = TRUE,
                    ![token].disconnected_at = None]

reconnect_session_token(st, token, websocket) ==
    IF token \notin DOMAIN st \/ ~st[token].present THEN st
    ELSE [st EXCEPT ![token].websocket = websocket,
                    ![token].is_connected = TRUE,
                    ![token].disconnected_at = None]

revoke_tokens_by_ip(st, ip, t) ==
    [k \in DOMAIN st |->
        IF st[k].present /\ st[k].ip = ip /\ ~st[k].revoked
        THEN [st[k] EXCEPT !.revoked = TRUE, !.is_connected = FALSE,
                           !.disconnected_at = t, !.websocket = None]
        ELSE st[k]]

revoke_all_tokens(st, t) ==
    [k \in DOMAIN st |->
        IF st[k].present /\ ~st[k].revoked
        THEN [st[k] EXCEPT !.revoked = TRUE, !.is_connected = FALSE,
                           !.disconnected_at = t, !.websocket = None]
        ELSE st[k]]

\* Fault variant of cleanup_expired_tokens: the revoked mark is not read.
cleanup_without_revoked(st, t) ==
    [k \in DOMAIN st |->
        IF st[k].present
           /\ ~st[k].is_connected /\ st[k].disconnected_at # None
           /\ t - st[k].disconnected_at > token_expiry_seconds
        THEN NoToken
        ELSE st[k]]

cleanup_expired_tokens(st, t) ==
    [k \in DOMAIN st |->
        IF st[k].present
           /\ (st[k].revoked
               \/ (~st[k].is_connected /\ st[k].disconnected_at # None
                   /\ t - st[k].disconnected_at > token_expiry_seconds))
        THEN NoToken
        ELSE st[k]]


(***************************************************************************)
(* Mining timer: the four timer fields of SystemState, as one record.      *)
(***************************************************************************)
Timer ==
    [active_miners |-> active_miners,
     total_mining_time |-> total_mining_time,
     last_mining_state_change |-> last_mining_state_change,
     is_mining_active |-> is_mining_active]

SetTimer(T) ==
    /\ active_miners' = T.active_miners
    /\ total_mining_time' = T.total_mining_time
    /\ last_mining_state_change' = T.last_mining_state_change
    /\ is_mining_active' = T.is_mining_active

start_miner(T, websocket, t) ==
    IF websocket \in T.active_miners THEN T
    ELSE IF T.active_miners = {}
         THEN [T EXCEPT !.is_mining_active = TRUE,
                        !.last_mining_state_change = t,
                        !.active_miners = {websocket}]
         ELSE [T EXCEPT !.active_miners = @ \cup {websocket}]

pause_mining_timer(T, t) ==
    IF T.is_mining_active /\ T.last_mining_state_change # None
    THEN [T EXCEPT !.total_mining_time = @ + (t - T.last_mining_state_change),
                   !.is_mining_active = FALSE,
                   !.last_mining_state_change = None]
    ELSE T

stop_miner(T, websocket, t) ==
    IF websocket \notin T.active_miners THEN T
    ELSE LET T1 == [T EXCEPT !.active_miners = @ \ {websocket}]
         IN IF T1.active_miners = {} /\ T1.is_mining_active
            THEN pause_mining_timer(T1, t)
            ELSE T1

get_current_mining_time(T, t) ==
    IF T.is_mining_active /\ T.last_mining_state_change # None
    THEN T.total_mining_time + (t - T.last_mining_state_change)
    ELSE T.total_mining_time

(***************************************************************************)
(* Connection registry: client_hashrates and ip_connections.               *)
(***************************************************************************)
NoRate == [present |-> FALSE, rate |-> None, timestamp |-> None, ip |-> None]

update_client_hashrate(ch, websocket, rate, client_ip, t) ==
    [ch EXCEPT ![websocket] =
        [present |-> TRUE, rate |-> rate, timestamp |-> t, ip |-> client_ip]]

remove_client_hashrate(ch, websocket) ==
    [ch EXCEPT ![websocket] = NoRate]

has_active_connection(ipc, ip) == ipc[ip] # None

register_ip_connection(ipc, ip, websocket) == [ipc EXCEPT ![ip] = websocket]

unregister_ip_connection(ipc, ip, websocket) ==
    IF ipc[ip] = websocket THEN [ipc EXCEPT ![ip] = None] ELSE ipc

get_ip_connection(ipc, ip) == ipc[ip]

is_banned(ip) == ip \in banned_ips

(***************************************************************************)
(* websocket_endpoint: one handler per socket s.  ws[s].pc is its          *)
(* position: "new" (not called yet), "captcha" (awaiting                   *)
(* verify_turnstile_token), "accept_first" / "accept_reconnect" (awaiting  *)
(* websocket.accept()), "send_token" (awaiting send_json(SESSION_TOKEN)),  *)
(* "open" (in the receive loop), "ended".                                  *)
(* ws[s].token is the query parameter: None when missing, 0 for a          *)
(* Turnstile response, k >= 1 for the session token string k.              *)
(* ws[s].closed is the code of the close frame the server sent, if any;    *)
(* ws[s].ended_at is the time the finally block of the handler ran.        *)
(* ws[s].ua_ok is the verdict of validate_user_agent and ws[s].captcha     *)
(* the answer of verify_turnstile_token ("none": not called).              *)
(***************************************************************************)
NoWs ==
    [pc |-> "new", ip |-> None, token |-> None, mode |-> "none",
     closed |-> None, reason |-> "", ended_at |-> None,
     ua_ok |-> FALSE, captcha |-> "none"]

Reject(s, ip, token, reason) ==
    ws' = [ws EXCEPT ![s] = [pc |-> "ended", ip |-> ip, token |-> None,
                             mode |-> "rejected", closed |-> 1008,
                             reason |-> reason, ended_at |-> None,
                             ua_ok |-> reason # "Invalid User-Agent",
                             captcha |-> IF reason = "Invalid token"
                                         THEN "failed" ELSE "none"]]

\* The eviction block of the reconnect branch.  remove_client_hashrate is a
\* plain method returning None, so "await state.remove_client_hashrate(old_ws)"
\* pops the hashrate entry and then raises TypeError; "except Exception: pass"
\* swallows it and the three statements after it are never executed.
EvictOldConnection(old_ws) ==
    /\ active_connections' = active_connections \ {old_ws}
    /\ client_hashrates' = remove_client_hashrate(client_hashrates, old_ws)

\* Lines 350-413: from the call to the first suspension.
WsConnect(s, ip, ua_ok, token) ==
    /\ ws[s].pc = "new"
    /\ \A k \in Sockets : k < s => ws[k].pc # "new"
    /\ UNCHANGED <<now, engineSide, timerVars, session_tokens, ip_connections,
                   banned_ips, kick_all_pc, historyVars>>
    /\ IF ~ua_ok THEN
          /\ Reject(s, ip, token, "Invalid User-Agent")
          /\ UNCHANGED <<active_connections, client_hashrates>>
       ELSE IF token = None THEN
          /\ Reject(s, ip, token, "Missing token in query parameter")
          /\ UNCHANGED <<active_connections, client_hashrates>>
       ELSE IF is_banned(ip) THEN
          /\ Reject(s, ip, token, "Access denied")
          /\ UNCHANGED <<active_connections, client_hashrates>>
       ELSE IF validate_session_token(session_tokens, token, ip, now) THEN
          /\ IF get_ip_connection(ip_connections, ip) # None
             THEN EvictOldConnection(get_ip_connection(ip_connections, ip))
             ELSE UNCHANGED <<active_connections, client_hashrates>>
          /\ ws' = [ws EXCEPT ![s] = [NoWs EXCEPT !.pc = "accept_reconnect",
                                                  !.ip = ip, !.token = token,
                                                  !.mode = "reconnect",
                                                  !.ua_ok = TRUE]]
       ELSE IF has_active_connection(ip_connections, ip) THEN
          /\ Reject(s, ip, token, "Duplicate connection from same IP")
          /\ UNCHANGED <<active_connections, client_hashrates>>
       ELSE
          /\ ws' = [ws EXCEPT ![s] = [NoWs EXCEPT !.pc = "captcha", !.ip = ip,
                                                  !.token = token,
                                                  !.mode = "first",
                                                  !.ua_ok = TRUE]]
          /\ UNCHANGED <<active_connections, client_hashrates>>

\* Fault variant of WsCaptchaDone: the answer of the verifier is not read.
WsCaptchaDoneAcceptsAll(s, is_valid) ==
    /\ ws[s].pc = "captcha"
    /\ ws' = [ws EXCEPT ![s].pc = "accept_first",
                        ![s].captcha = IF is_valid THEN "passed" ELSE "failed"]
    /\ UNCHANGED <<now, engineSide, timerVars, active_connections,
                   session_tokens, client_hashrates, ip_connections, banned_ips,
                   kick_all_pc, historyVars>>

\* Lines 413-425: verify_turnstile_token returned; is_valid is the answer of
\* the external verifier.
WsCaptchaDone(s, is_valid) ==
    /\ ws[s].pc = "captcha"
    /\ IF is_valid
       THEN ws' = [ws EXCEPT ![s].pc = "accept_first", ![s].captcha = "passed"]
       ELSE Reject(s, ws[s].ip, ws[s].token, "Invalid token")
    /\ UNCHANGED <<now, engineSide, timerVars, active_connections,
                   session_tokens, client_hashrates, ip_connections, banned_ips,
                   kick_all_pc, historyVars>>

\* Lines 425-431: accept() returned on the first-connection branch.
WsAcceptedFirst(s) ==
    /\ ws[s].pc = "accept_first"
    /\ active_connections' = active_connections \cup {s}
    /\ ip_connections' = register_ip_connection(ip_connections, ws[s].ip, s)
    /\ session_tokens' = generate_session_token(session_tokens, s, ws[s].ip)
    /\ issued_ip' = [issued_ip EXCEPT ![s] = ws[s].ip]
    /\ ws' = [ws EXCEPT ![s].pc = "send_token"]
    /\ UNCHANGED <<now, engineSide, timerVars, client_hashrates, banned_ips,
                   kick_all_pc, ever_revoked>>

\* Lines 431-437: send_json(SESSION_TOKEN) returned; the receive loop starts.
WsTokenSent(s) ==
    /\ ws[s].pc = "send_token"
    /\ ws[s].closed = None
    /\ ws' = [ws EXCEPT ![s].pc = "open"]
    /\ UNCHANGED <<now, engineSide, timerVars, active_connections,
                   session_tokens, client_hashrates, ip_connections, banned_ips,
                   kick_all_pc, historyVars>>

\* Line 431 raising (peer gone, or the socket already closed by the server):
\* the statement is outside the try block, so the handler ends without cleanup.
WsTokenSendFails(s) ==
    /\ ws[s].pc = "send_token"
    /\ ws' = [ws EXCEPT ![s].pc = "ended"]
    /\ UNCHANGED <<now, engineSide, timerVars, active_connections,
                   session_tokens, client_hashrates, ip_connections, banned_ips,
                   kick_all_pc, historyVars>>

\* Lines 397-403: accept() returned on the reconnect branch.
WsAcceptedReconnect(s) ==
    /\ ws[s].pc = "accept_reconnect"
    /\ active_connections' = active_connections \cup {s}
    /\ ip_connections' = register_ip_connection(ip_connections, ws[s].ip, s)
    /\ session_tokens' = reconnect_session_token(session_tokens, ws[s].token, s)
    /\ ws' = [ws EXCEPT ![s].pc = "open"]
    /\ UNCHANGED <<now, engineSide, timerVars, client_hashrates, banned_ips,
                   kick_all_pc, historyVars>>

\* The receive loop can read a message only while the socket is open.
Receiving(s) == ws[s].pc = "open" /\ ws[s].closed = None

\* Lines 460-462.
WsMiningStart(s) ==
    /\ Receiving(s)
    /\ SetTimer(start_miner(Timer, s, now))
    /\ UNCHANGED <<now, engineSide, sessionVars, historyVars>>

\* Lines 464-466.
WsMiningStop(s) ==
    /\ Receiving(s)
    /\ SetTimer(stop_miner(Timer, s, now))
    /\ UNCHANGED <<now, engineSide, sessionVars, historyVars>>

\* Lines 468-477.
WsHashrate(s, rate) ==
    /\ Receiving(s)
    /\ client_hashrates' =
          IF 0 <= rate /\ rate < 1000
          THEN update_client_hashrate(client_hashrates, s, rate, ws[s].ip, now)
          ELSE client_hashrates
    /\ UNCHANGED <<now, engineSide, timerVars, active_connections,
                   session_tokens, ip_connections, banned_ips, ws, kick_all_pc,
                   historyVars>>

\* Lines 479-491: receive_text raised (peer disconnected, or the server closed
\* the socket).  The finally block discards the socket and calls
\* remove_client_hashrate, whose None result is awaited: TypeError leaves the
\* block before stop_miner, revoke_session_token and unregister_ip_connection.
WsDisconnect(s) ==
    /\ ws[s].pc = "open"
    /\ active_connections' = active_connections \ {s}
    /\ client_hashrates' = remove_client_hashrate(client_hashrates, s)
    /\ ws' = [ws EXCEPT ![s].pc = "ended", ![s].ended_at = now]
    /\ UNCHANGED <<now, engineSide, timerVars, session_tokens, ip_connections,
                   banned_ips, kick_all_pc, historyVars>>


(***************************************************************************)
(* Control plane operations on sessions and connections (admin.py).        *)
(***************************************************************************)
\* ws.close(code=1000) on every socket of S; closing a socket that is already
\* closed raises, which the callers swallow.
CloseSockets(S) ==
    [k \in Sockets |->
        IF k \in S /\ ws[k].closed = None /\ ws[k].pc # "ended"
        THEN [ws[k] EXCEPT !.closed = 1000, !.reason = "admin"]
        ELSE ws[k]]

Marked(st0, st1) == {k \in Sockets : ~st0[k].revoked /\ st1[k].revoked}

ClearRegistries ==
    /\ active_connections' = {}
    /\ active_miners' = {}
    /\ client_hashrates' = [k \in Sockets |-> NoRate]

\* kick_all, lines 318-326: revoke every token, then close every socket of the
\* snapshot.  With an empty snapshot there is no await and lines 330-332 follow
\* at once.
KickAllBegin ==
    /\ kick_all_pc = "idle"
    /\ session_tokens' = revoke_all_tokens(session_tokens, now)
    /\ ever_revoked' = ever_revoked \cup Marked(session_tokens, session_tokens')
    /\ ws' = CloseSockets(active_connections)
    /\ IF active_connections = {}
       THEN /\ ClearRegistries
            /\ kick_all_pc' = "idle"
       ELSE /\ kick_all_pc' = "closing"
            /\ UNCHANGED <<active_connections, active_miners, client_hashrates>>
    /\ UNCHANGED <<now, engineSide, total_mining_time,
                   last_mining_state_change, is_mining_active, ip_connections,
                   banned_ips, issued_ip>>

\* kick_all, lines 330-332, after the closes.
KickAllFinish ==
    /\ kick_all_pc = "closing"
    /\ ClearRegistries
    /\ kick_all_pc' = "idle"
    /\ UNCHANGED <<now, engineSide, total_mining_time,
                   last_mining_state_change, is_mining_active, session_tokens,
                   ip_connections, banned_ips, ws, historyVars>>

\* kick_ip: ban, revoke the ip's tokens, close the sockets whose hashrate
\* entry names the ip.
KickIp(target_ip) ==
    /\ banned_ips' = banned_ips \cup {target_ip}
    /\ session_tokens' = revoke_tokens_by_ip(session_tokens, target_ip, now)
    /\ ever_revoked' = ever_revoked \cup Marked(session_tokens, session_tokens')
    /\ ws' = CloseSockets({k \in Sockets : client_hashrates[k].present
                                           /\ client_hashrates[k].ip = target_ip})
    /\ UNCHANGED <<now, engineSide, timerVars, active_connections,
                   client_hashrates, ip_connections, kick_all_pc, issued_ip>>

\* unban_ip.
Unban(ip) ==
    /\ ip \in banned_ips
    /\ banned_ips' = banned_ips \ {ip}
    /\ UNCHANGED <<now, engineSide, timerVars, active_connections,
                   session_tokens, client_hashrates, ip_connections, ws,
                   kick_all_pc, historyVars>>

\* clear_sessions: revoke every token and close the sockets the connected
\* tokens refer to.
ClearSessions ==
    /\ session_tokens' = revoke_all_tokens(session_tokens, now)
    /\ ever_revoked' = ever_revoked \cup Marked(session_tokens, session_tokens')
    /\ ws' = CloseSockets({session_tokens[k].websocket : k \in
                 {j \in Sockets : session_tokens[j].present
                                  /\ session_tokens[j].websocket # None
                                  /\ session_tokens[j].is_connected}})
    /\ UNCHANGED <<now, engineSide, timerVars, active_connections,
                   client_hashrates, ip_connections, banned_ips, kick_all_pc,
                   issued_ip>>

\* cleanup_loop: one run of _cleanup_expired_tokens.
Sweeper ==
    /\ session_tokens' = cleanup_expired_tokens(session_tokens, now)
    /\ UNCHANGED <<now, engineSide, timerVars, active_connections,
                   client_hashrates, ip_connections, banned_ips, ws,
                   kick_all_pc, historyVars>>

(***************************************************************************)
(* Difficulty controller.  Floats are kept in fixed point: solve times and *)
(* the EMA in tenths of a second, difficulty_float and the step in eighths *)
(* of a bit.                                                               *)
(***************************************************************************)
\* 100 * 2^(k/8) for k = 0..7, truncated.
Pow2Eighths == <<100, 109, 118, 129, 141, 154, 168, 183>>

RECURSIVE Pow2(_)
Pow2(n) == IF n <= 0 THEN 1 ELSE 2 * Pow2(n - 1)

\* 2^(j/8) <= num/den, for -32 <= j <= 32.
AtLeastPow2(num, den, j) ==
    LET e == j \div 8
        k == j % 8
    IN IF e >= 0
       THEN Pow2(e) * Pow2Eighths[k + 1] * den <= 100 * num
       ELSE Pow2Eighths[k + 1] * den <= 100 * num * Pow2(0 - e)

\* max(-4.0, min(log2(target_time / max(effective_time, 0.1)), 4.0)), in
\* eighths, rounded down.  effective_time is in tenths of a second.
smooth_adjustment(target, effective_time) ==
    LET num == target * 10
        den == IF effective_time > 1 THEN effective_time ELSE 1
    IN IF AtLeastPow2(num, den, 32) THEN 32
       ELSE IF ~AtLeastPow2(num, den, -32) THEN -32
       ELSE CHOOSE j \in -32..31 :
               AtLeastPow2(num, den, j) /\ ~AtLeastPow2(num, den, j + 1)

\* state.py line 217 reads self.target_time, which nothing but the
\* constructor writes.
calculate_smooth_adjustment(effective_time) ==
    smooth_adjustment(target_time, effective_time)

\* Python's round(): to the nearest integer, ties to the even one.
RoundEighths(f) ==
    LET q == f \div 8
        r == f % 8
    IN IF r < 4 THEN q
       ELSE IF r > 4 THEN q + 1
       ELSE IF q % 2 = 0 THEN q ELSE q + 1

\* The EMA after one more solve time (seconds); ema_alpha = 2/(5+1).
EmaAfter(ema, solve_time) ==
    IF ema = None THEN 10 * solve_time
    ELSE (10 * solve_time + 2 * ema) \div 3

\* Fault variant of FloatAfter: the sum is not clamped to the range.
FloatAfterUnclamped(ema, df, solve_time, mn, mx) ==
    df + calculate_smooth_adjustment(EmaAfter(ema, solve_time))

\* difficulty_float after adjust_difficulty(solve_time).
FloatAfter(ema, df, solve_time, mn, mx) ==
    LET step == calculate_smooth_adjustment(EmaAfter(ema, solve_time))
        raw == df + step
    IN IF raw > 8 * mx
       THEN (IF 8 * mx < 8 * mn THEN 8 * mn ELSE 8 * mx)
       ELSE IF raw < 8 * mn THEN 8 * mn ELSE raw

NextDifficulty(solve_time) ==
    RoundEighths(FloatAfter(ema_solve_time, difficulty_float, solve_time,
                            min_difficulty, max_difficulty))

adjust_difficulty(solve_time) ==
    /\ ema_solve_time' = EmaAfter(ema_solve_time, solve_time)
    /\ difficulty_float' = FloatAfter(ema_solve_time, difficulty_float,
                                      solve_time, min_difficulty, max_difficulty)
    /\ difficulty' = NextDifficulty(solve_time)
    /\ last_solve_time' = solve_time
    /\ UNCHANGED <<min_difficulty, max_difficulty>>

\* Fault variant of AppendCapped: a full history gives up its newest entry.
AppendDropsNewest(h, x, cap) ==
    IF Len(h) >= cap THEN Append(SubSeq(h, 1, Len(h) - 1), x) ELSE Append(h, x)

\* deque(maxlen=5).append and the capped chart list.
AppendCapped(h, x, cap) ==
    IF Len(h) >= cap THEN Append(Tail(h), x) ELSE Append(h, x)

record_solve_time(solve_time) ==
    /\ solve_history' = AppendCapped(solve_history, solve_time, solve_history_maxlen)
    /\ solve_time_chart_history' =
          AppendCapped(solve_time_chart_history, solve_time, chart_history_max)

\* reset_puzzle: a fresh seed and a cleared mining timer.
ResetTimer ==
    [active_miners |-> {}, total_mining_time |-> 0,
     last_mining_state_change |-> None, is_mining_active |-> FALSE]

\* History of the puzzles: seed current_seed is retired by who while the
\* sockets of active_connections are registered, the next seed is issued with
\* difficulty d and the Argon2 parameters a.
LogResetWith(who, d, a) ==
    puzzle_log' = [puzzle_log EXCEPT ![current_seed].reset_by = who,
                                     ![current_seed].audience = active_connections,
                                     ![current_seed + 1].difficulty = d,
                                     ![current_seed + 1].argon2 = a]

LogReset(who, d) ==
    LogResetWith(who, d, <<argon2_time_cost, argon2_memory_cost, argon2_parallelism>>)

reset_puzzle ==
    /\ current_seed' = current_seed + 1
    /\ SetTimer(ResetTimer)

(***************************************************************************)
(* Hash verifier (crypto.py).  Argon2d is a fixed function of its inputs   *)
(* with HashBits output bits; the model takes an arbitrary mixing of the   *)
(* inputs.  traceData is modelled by the ip it names.                      *)
(***************************************************************************)
HashSpace == Pow2(HashBits)

Argon2d(nonce, seed, visitor_id, trace_data, time_cost, memory_cost, parallelism) ==
    (5 * nonce + 3 * seed + 7 * visitor_id + 2 * trace_data
       + time_cost + memory_cost + parallelism) % HashSpace

RECURSIVE bit_length(_)
bit_length(n) == IF n <= 0 THEN 0 ELSE 1 + bit_length(n \div 2)

leading_zero_bits(hash_int) ==
    IF hash_int # 0 THEN HashBits - bit_length(hash_int) ELSE HashBits

\* Fault variant of verify_argon2_solution: the submitted hash is not compared
\* with the recomputed one.
verify_without_compare(nonce, seed, visitor_id, trace_data, submitted_hash, d, time_cost, memory_cost, parallelism) ==
    LET hash_hex == Argon2d(nonce, seed, visitor_id, trace_data,
                            time_cost, memory_cost, parallelism)
    IN IF leading_zero_bits(hash_hex) < d
       THEN "Hash does not meet difficulty requirement"
       ELSE "ok"

\* verify_argon2_solution: "ok", or the reason of the failure.
verify_argon2_solution(nonce, seed, visitor_id, trace_data, submitted_hash, d, time_cost, memory_cost, parallelism) ==
    LET hash_hex == Argon2d(nonce, seed, visitor_id, trace_data,
                            time_cost, memory_cost, parallelism)
    IN IF hash_hex # submitted_hash THEN "Hash mismatch"
       ELSE IF leading_zero_bits(hash_hex) < d
            THEN "Hash does not meet difficulty requirement"
       ELSE "ok"

\* Fault variant of generate_invite_code: the difficulty and the clock enter
\* the derivation.
invite_code_from_state(secret, visitor_id, nonce, seed) ==
    (secret * 31 + visitor_id * 17 + nonce * 13 + seed * 7 + difficulty + now) % 1000

\* generate_invite_code: HMAC-SHA256 of "visitor_id:nonce:seed" under the
\* secret, cut to 10 characters; modelled by a mixing of the four inputs.
generate_invite_code(secret, visitor_id, nonce, seed) ==
    (secret * 31 + visitor_id * 17 + nonce * 13 + seed * 7) % 1000

\* check_nonce_speed: TRUE when the check passes.
check_nonce_speed(nonce, solve_time) ==
    IF max_nonce_speed <= 0 THEN TRUE
    ELSE IF solve_time <= 0 THEN TRUE
    ELSE ~(1000 * nonce > max_nonce_speed * solve_time)

(***************************************************************************)
(* The engine mutex, an asyncio.Lock: acquire() takes a free lock at once  *)
(* when nobody waits, otherwise the task queues and the lock is handed out *)
(* in arrival order.  Tasks are <<kind, id>>.                              *)
(***************************************************************************)
\* Fault variant of LockFreeFor: a lock that excludes nobody.
LockAlwaysFree(task) == TRUE

LockFreeFor(task) ==
    /\ ~lock_locked
    /\ (lock_waiters = <<>> \/ Head(lock_waiters) = task)

Without(q, task) == SelectSeq(q, LAMBDA x : x # task)

(***************************************************************************)
(* Timeout watcher tasks.  wtask[w] is "none" (not created), "sleep",      *)
(* "wait_lock", "done", "cancelled" or "crashed".                          *)
(***************************************************************************)
Tasks == 1..(MaxSeed + 1)

\* start_timeout_checker called by caller (a watcher id, or 0 for a handler):
\* cancel the current task if it is not done, create the next one.  A task
\* cancelled while it waits for the lock leaves the queue.
CancelledBy(caller) ==
    IF timeout_task # None /\ timeout_task # caller
       /\ wtask[timeout_task] \in {"sleep", "wait_lock"}
    THEN {timeout_task} ELSE {}

WtaskAfterStart(caller, callerEnds) ==
    [w \in Tasks |->
        IF w = timeout_task + 1 THEN "sleep"
        ELSE IF w \in CancelledBy(caller) THEN "cancelled"
        ELSE IF w = caller THEN callerEnds
        ELSE wtask[w]]

WaitersAfterStart(caller, q) ==
    IF CancelledBy(caller) = {} THEN q
    ELSE Without(q, <<"watcher", timeout_task>>)

\* Fault variant of start_timeout_checker: the current task is not cancelled.
start_without_cancel(caller, callerEnds, q) ==
    /\ wtask' = [w \in Tasks |->
                   IF w = timeout_task + 1 THEN "sleep"
                   ELSE IF w = caller THEN callerEnds
                   ELSE wtask[w]]
    /\ timeout_task' = timeout_task + 1
    /\ lock_waiters' = q

\* start_timeout_checker, called by a watcher task (its id) or a handler (0).
start_timeout_checker(caller, callerEnds, q) ==
    /\ wtask' = WtaskAfterStart(caller, callerEnds)
    /\ timeout_task' = timeout_task + 1
    /\ lock_waiters' = WaitersAfterStart(caller, q)

\* _broadcast: a send fails on a socket whose handler is gone or that the
\* server has closed; the failed sockets leave active_connections.
SendFails(c) == ws[c].pc = "ended" \/ ws[c].closed # None

Pruned(snapshot) == active_connections \ {c \in snapshot : SendFails(c)}

\* History: every socket of the snapshot whose send_text succeeds has received
\* one more PUZZLE_RESET frame for the retirement of seed.
Delivered(seed, snapshot) ==
    [puzzle_log EXCEPT ![seed].sent =
        [c \in Sockets |-> IF c \in snapshot /\ ~SendFails(c)
                           THEN @[c] + 1 ELSE @[c]]]

sessionRest == <<session_tokens, client_hashrates, ip_connections, banned_ips,
                 ws, kick_all_pc>>

(***************************************************************************)
(* verify_solution: one handler per request r.  req[r].pc is "idle" (not   *)
(* called yet), "wait_lock" (suspended in lock.acquire), "in_pool"         *)
(* (awaiting run_in_executor, lock held), "broadcast" (awaiting            *)
(* broadcast_puzzle_reset, lock held) or "done".  status and detail are    *)
(* the HTTP response; args are the values handed to the worker pool;       *)
(* reset_seed (the seed the request retired) and waited (it queued for the *)
(* lock) are history.                                                      *)
(***************************************************************************)
NoReq ==
    [pc |-> "idle", ip |-> None, visitorId |-> None, nonce |-> None,
     submittedSeed |-> None, traceData |-> None, hash |-> None,
     solve_time |-> None, args |-> <<>>, snapshot |-> {},
     status |-> None, detail |-> "", invite_code |-> None,
     reset_seed |-> None, waited |-> FALSE]

Respond(rec, status, detail) ==
    [rec EXCEPT !.pc = "done", !.status = status, !.detail = detail]

\* Fault variant of VerifyLocked: the double check of the seed is left out.
VerifyLockedNoDoubleCheck(r, rec) ==
    LET solve_time == get_current_mining_time(Timer, now)
    IN /\ lock_waiters' = Without(lock_waiters, <<"verify", r>>)
       /\ IF ~check_nonce_speed(rec.nonce, solve_time) THEN
             /\ req' = [req EXCEPT ![r] =
                   Respond([rec EXCEPT !.solve_time = solve_time], 400,
                           "Computation speed too high")]
             /\ lock_locked' = FALSE
          ELSE
             /\ req' = [req EXCEPT ![r] =
                   [rec EXCEPT !.pc = "in_pool", !.solve_time = solve_time,
                               !.args = <<difficulty, argon2_time_cost,
                                          argon2_memory_cost,
                                          argon2_parallelism>>]]
             /\ lock_locked' = TRUE

\* Fault variant of VerifyLocked: a submission refused for its speed leaves
\* the lock held.
VerifyLockedHoldsOnSpeed(r, rec) ==
    LET solve_time == get_current_mining_time(Timer, now)
    IN /\ lock_waiters' = Without(lock_waiters, <<"verify", r>>)
       /\ IF current_seed # rec.submittedSeed THEN
             /\ req' = [req EXCEPT ![r] =
                   Respond(rec, 409, "Puzzle already solved by someone else")]
             /\ lock_locked' = FALSE
          ELSE IF ~check_nonce_speed(rec.nonce, solve_time) THEN
             /\ req' = [req EXCEPT ![r] =
                   Respond([rec EXCEPT !.solve_time = solve_time], 400,
                           "Computation speed too high")]
             /\ lock_locked' = TRUE
          ELSE
             /\ req' = [req EXCEPT ![r] =
                   [rec EXCEPT !.pc = "in_pool", !.solve_time = solve_time,
                               !.args = <<difficulty, argon2_time_cost,
                                          argon2_memory_cost,
                                          argon2_parallelism>>]]
             /\ lock_locked' = TRUE

\* Lines 224-254, entered with the lock just acquired by request r.
VerifyLocked(r, rec) ==
    LET solve_time == get_current_mining_time(Timer, now)
    IN /\ lock_waiters' = Without(lock_waiters, <<"verify", r>>)
       /\ IF current_seed # rec.submittedSeed THEN
             /\ req' = [req EXCEPT ![r] =
                   Respond(rec, 409, "Puzzle already solved by someone else")]
             /\ lock_locked' = FALSE
          ELSE IF ~check_nonce_speed(rec.nonce, solve_time) THEN
             /\ req' = [req EXCEPT ![r] =
                   Respond([rec EXCEPT !.solve_time = solve_time], 400,
                           "Computation speed too high")]
             /\ lock_locked' = FALSE
          ELSE
             /\ req' = [req EXCEPT ![r] =
                   [rec EXCEPT !.pc = "in_pool", !.solve_time = solve_time,
                               !.args = <<difficulty, argon2_time_cost,
                                          argon2_memory_cost,
                                          argon2_parallelism>>]]
             /\ lock_locked' = TRUE

\* Fault variant of VerifyBegin: the seed is compared before the trace check.
VerifyBeginSeedFirst(r, token, ip, visitor, nonce, seed, trace, hash) ==
    /\ req[r].pc = "idle"
    /\ \A k \in Requests : k < r => req[k].pc # "idle"
    /\ LET rec == [NoReq EXCEPT !.ip = ip, !.visitorId = visitor,
                                !.nonce = nonce, !.submittedSeed = seed,
                                !.traceData = trace, !.hash = hash]
       IN IF ~validate_session_token(session_tokens, token, ip, now) THEN
             /\ req' = [req EXCEPT ![r] =
                   Respond(NoReq, 401, "Invalid or expired session token")]
             /\ UNCHANGED lockVars
          ELSE IF is_banned(ip) THEN
             /\ req' = [req EXCEPT ![r] = Respond(NoReq, 403, "Access denied")]
             /\ UNCHANGED lockVars
          ELSE IF current_seed # seed THEN
             /\ req' = [req EXCEPT ![r] =
                   Respond(rec, 409, "Puzzle already solved by someone else")]
             /\ UNCHANGED lockVars
          ELSE IF trace # ip THEN
             /\ req' = [req EXCEPT ![r] =
                   Respond([NoReq EXCEPT !.ip = ip, !.submittedSeed = seed,
                                         !.traceData = trace],
                           403, "Identity mismatch")]
             /\ UNCHANGED lockVars
          ELSE IF LockFreeFor(<<"verify", r>>) THEN
             VerifyLocked(r, rec)
          ELSE
             /\ req' = [req EXCEPT ![r] = [rec EXCEPT !.pc = "wait_lock",
                                                      !.waited = TRUE]]
             /\ lock_waiters' = Append(lock_waiters, <<"verify", r>>)
             /\ UNCHANGED lock_locked
    /\ UNCHANGED <<now, current_seed, difficultyVars, configVars, taskVars,
                   admin_pc, puzzle_log, timerVars, sessionVars, historyVars>>

\* Lines 28-74 and 198-222: the token dependency and the checks before the
\* lock, up to the first suspension.  The response to a submission that
\* fails the trace check keeps the ip, the seed and the trace ip of the
\* submission (history).
VerifyBegin(r, token, ip, visitor, nonce, seed, trace, hash) ==
    /\ req[r].pc = "idle"
    /\ \A k \in Requests : k < r => req[k].pc # "idle"
    /\ LET rec == [NoReq EXCEPT !.ip = ip, !.visitorId = visitor,
                                !.nonce = nonce, !.submittedSeed = seed,
                                !.traceData = trace, !.hash = hash]
       IN IF ~validate_session_token(session_tokens, token, ip, now) THEN
             /\ req' = [req EXCEPT ![r] =
                   Respond(NoReq, 401, "Invalid or expired session token")]
             /\ UNCHANGED lockVars
          ELSE IF is_banned(ip) THEN
             /\ req' = [req EXCEPT ![r] = Respond(NoReq, 403, "Access denied")]
             /\ UNCHANGED lockVars
          ELSE IF trace # ip THEN
             /\ req' = [req EXCEPT ![r] =
                   Respond([NoReq EXCEPT !.ip = ip, !.submittedSeed = seed,
                                         !.traceData = trace],
                           403, "Identity mismatch")]
             /\ UNCHANGED lockVars
          ELSE IF current_seed # seed THEN
             /\ req' = [req EXCEPT ![r] =
                   Respond(rec, 409, "Puzzle already solved by someone else")]
             /\ UNCHANGED lockVars
          ELSE IF LockFreeFor(<<"verify", r>>) THEN
             VerifyLocked(r, rec)
          ELSE
             /\ req' = [req EXCEPT ![r] = [rec EXCEPT !.pc = "wait_lock",
                                                      !.waited = TRUE]]
             /\ lock_waiters' = Append(lock_waiters, <<"verify", r>>)
             /\ UNCHANGED lock_locked
    /\ UNCHANGED <<now, current_seed, difficultyVars, configVars, taskVars,
                   admin_pc, puzzle_log, timerVars, sessionVars, historyVars>>

\* The lock is handed to the waiting request r.
VerifyAcquire(r) ==
    /\ req[r].pc = "wait_lock"
    /\ LockFreeFor(<<"verify", r>>)
    /\ VerifyLocked(r, req[r])
    /\ UNCHANGED <<now, current_seed, difficultyVars, configVars, taskVars,
                   admin_pc, puzzle_log, timerVars, sessionVars, historyVars>>

\* Fault variant of VerifyFinish: the lock is not released.
VerifyFinishKeepsLock(r, rec) ==
    /\ start_timeout_checker(0, "none", lock_waiters)
    /\ lock_locked' = TRUE
    /\ req' = [req EXCEPT ![r] = Respond(rec, 200, "")]

\* Lines 302-307: start_timeout_checker, the lock released, the response.
VerifyFinish(r, rec) ==
    /\ start_timeout_checker(0, "none", lock_waiters)
    /\ lock_locked' = FALSE
    /\ req' = [req EXCEPT ![r] = Respond(rec, 200, "")]

\* Lines 254-299: the worker pool answered.
VerifyPoolDone(r) ==
    /\ req[r].pc = "in_pool"
    /\ LET rec == req[r]
           verdict == verify_argon2_solution(rec.nonce, rec.submittedSeed,
                         rec.visitorId, rec.traceData, rec.hash, rec.args[1],
                         rec.args[2], rec.args[3], rec.args[4])
           won == [rec EXCEPT
                     !.invite_code = generate_invite_code(hmac_secret,
                         rec.visitorId, rec.nonce, rec.submittedSeed),
                     !.reset_seed = current_seed]
       IN IF verdict # "ok" THEN
             /\ req' = [req EXCEPT ![r] = Respond(rec, 400, verdict)]
             /\ lock_locked' = FALSE
             /\ UNCHANGED <<current_seed, difficultyVars, lock_waiters,
                            taskVars, puzzle_log, timerVars>>
          ELSE
             /\ current_seed < MaxSeed
             /\ adjust_difficulty(rec.solve_time)
             /\ record_solve_time(rec.solve_time)
             /\ LogReset("verify", NextDifficulty(rec.solve_time))
             /\ reset_puzzle
             /\ IF active_connections = {}
                THEN VerifyFinish(r, won)
                ELSE /\ req' = [req EXCEPT ![r] =
                           [won EXCEPT !.pc = "broadcast",
                                       !.snapshot = active_connections]]
                     /\ UNCHANGED <<lockVars, taskVars>>
    /\ UNCHANGED <<now, configVars, admin_pc, sessionVars, historyVars>>

\* Lines 299-307: the broadcast returned.
VerifyBroadcastDone(r) ==
    /\ req[r].pc = "broadcast"
    /\ active_connections' = Pruned(req[r].snapshot)
    /\ puzzle_log' = Delivered(req[r].reset_seed, req[r].snapshot)
    /\ VerifyFinish(r, [req[r] EXCEPT !.snapshot = {}])
    /\ UNCHANGED <<now, current_seed, difficultyVars, configVars, admin_pc,
                   timerVars, sessionRest, historyVars>>

(***************************************************************************)
(* _check_timeout: the watcher task w.                                     *)
(***************************************************************************)
\* Lines 312-343 with the lock just acquired.  On a confirmed timeout the
\* task calls start_timeout_checker, which cancels the running task (itself)
\* and creates the successor; `break` then leaves the while loop, whose body
\* holds the broadcast of line 343: no frame is sent and the task ends
\* cancelled.  When the re-check fails, line 343 is reached with reset_msg
\* unbound and the task ends in the exception handler, without a successor.
WatcherLocked(w) ==
    /\ lock_locked' = FALSE
    /\ IF get_current_mining_time(Timer, now) >= target_timeout THEN
          /\ current_seed < MaxSeed
          /\ adjust_difficulty(target_timeout)
          /\ LogReset("watcher", NextDifficulty(target_timeout))
          /\ reset_puzzle
          /\ start_timeout_checker(w, "cancelled",
                Without(lock_waiters, <<"watcher", w>>))
       ELSE
          /\ wtask' = [wtask EXCEPT ![w] = "crashed"]
          /\ lock_waiters' = Without(lock_waiters, <<"watcher", w>>)
          /\ UNCHANGED <<current_seed, difficultyVars, timeout_task, puzzle_log,
                         timerVars>>
    /\ UNCHANGED <<now, solve_history, solve_time_chart_history, configVars,
                   req, admin_pc, sessionVars, historyVars>>

\* Lines 302-310: the sleep returned and the mining time reached the timeout.
WatcherWake(w) ==
    /\ wtask[w] = "sleep"
    /\ get_current_mining_time(Timer, now) >= target_timeout
    /\ IF LockFreeFor(<<"watcher", w>>)
       THEN WatcherLocked(w)
       ELSE /\ wtask' = [wtask EXCEPT ![w] = "wait_lock"]
            /\ lock_waiters' = Append(lock_waiters, <<"watcher", w>>)
            /\ UNCHANGED <<now, current_seed, difficultyVars, configVars,
                           lock_locked, timeout_task, req, admin_pc, puzzle_log,
                           timerVars, sessionVars, historyVars>>

WatcherAcquire(w) ==
    /\ wtask[w] = "wait_lock"
    /\ LockFreeFor(<<"watcher", w>>)
    /\ WatcherLocked(w)

(***************************************************************************)
(* admin reset_puzzle (admin.py): admin_pc.pc is "idle", "wait_lock" or    *)
(* "broadcast".                                                            *)
(***************************************************************************)
AdminIdle == [pc |-> "idle", snapshot |-> {}]

AdminResetFinish ==
    /\ start_timeout_checker(0, "none", Without(lock_waiters, <<"admin", 0>>))
    /\ lock_locked' = FALSE
    /\ admin_pc' = AdminIdle

\* The body of `async with state.lock` of an admin handler, up to the
\* broadcast: the new seed is issued with difficulty d and Argon2
\* parameters a.
AdminLocked(d, a) ==
    /\ current_seed < MaxSeed
    /\ LogResetWith("admin", d, a)
    /\ reset_puzzle
    /\ IF active_connections = {}
       THEN AdminResetFinish
       ELSE /\ admin_pc' = [pc |-> "broadcast", snapshot |-> active_connections]
            /\ lock_locked' = TRUE
            /\ lock_waiters' = Without(lock_waiters, <<"admin", 0>>)
            /\ UNCHANGED taskVars
    /\ UNCHANGED <<now, req, sessionVars, historyVars>>

AdminResetLocked ==
    /\ AdminLocked(difficulty,
          <<argon2_time_cost, argon2_memory_cost, argon2_parallelism>>)
    /\ UNCHANGED <<difficultyVars, configVars>>

\* An admin handler reaches `async with state.lock`.
AdminEnterLock(d, a) ==
    IF LockFreeFor(<<"admin", 0>>)
    THEN AdminLocked(d, a)
    ELSE /\ admin_pc' = [pc |-> "wait_lock", snapshot |-> {}]
         /\ lock_waiters' = Append(lock_waiters, <<"admin", 0>>)
         /\ UNCHANGED <<now, current_seed, lock_locked, taskVars, req,
                        puzzle_log, timerVars, sessionVars, historyVars>>

AdminResetBegin ==
    /\ admin_pc.pc = "idle"
    /\ AdminEnterLock(difficulty,
          <<argon2_time_cost, argon2_memory_cost, argon2_parallelism>>)
    /\ UNCHANGED <<difficultyVars, configVars>>

AdminResetAcquire ==
    /\ admin_pc.pc = "wait_lock"
    /\ LockFreeFor(<<"admin", 0>>)
    /\ AdminResetLocked

AdminResetBroadcastDone ==
    /\ admin_pc.pc = "broadcast"
    /\ active_connections' = Pruned(admin_pc.snapshot)
    /\ puzzle_log' = Delivered(current_seed - 1, admin_pc.snapshot)
    /\ AdminResetFinish
    /\ UNCHANGED <<now, current_seed, difficultyVars, configVars, req,
                   timerVars, sessionRest, historyVars>>

(***************************************************************************)
(* admin update_difficulty and update_argon2 (admin.py).  The fields of    *)
(* the request body are validated and assigned one after the other; an     *)
(* invalid field returns an error at once, after the assignments made for  *)
(* the fields before it and without reaching the lock.                     *)
(***************************************************************************)
\* Lines 154-170: the range and the difficulty after the body
\* (bmin, bmax, bd), None for an absent field, and whether an error is
\* returned.
DifficultyUpdate(bmin, bmax, bd) ==
    LET minBad == bmin # None /\ (bmin < 1 \/ bmin > 32)
        mn1 == IF bmin # None /\ ~minBad THEN bmin ELSE min_difficulty
        maxBad == bmax # None /\ (bmax < 1 \/ bmax > 32)
        mx1 == IF bmax # None /\ ~maxBad THEN bmax ELSE max_difficulty
        mn2 == IF mn1 > mx1 THEN mx1 ELSE mn1
        mx2 == IF mn1 > mx1 THEN mn1 ELSE mx1
        dBad == bd # None /\ (bd < mn2 \/ bd > mx2)
    IN IF minBad THEN
          [min |-> min_difficulty, max |-> max_difficulty,
           difficulty |-> difficulty, error |-> TRUE]
       ELSE IF maxBad THEN
          [min |-> mn1, max |-> max_difficulty,
           difficulty |-> difficulty, error |-> TRUE]
       ELSE IF dBad THEN
          [min |-> mn2, max |-> mx2, difficulty |-> difficulty, error |-> TRUE]
       ELSE
          [min |-> mn2, max |-> mx2,
           difficulty |-> IF bd # None THEN bd ELSE difficulty, error |-> FALSE]

\* Lines 148-187.
UpdateDifficulty(bmin, bmax, bd) ==
    /\ admin_pc.pc = "idle"
    /\ LET u == DifficultyUpdate(bmin, bmax, bd)
       IN /\ min_difficulty' = u.min
          /\ max_difficulty' = u.max
          /\ difficulty' = u.difficulty
          /\ IF u.error
             THEN UNCHANGED <<now, current_seed, lockVars, taskVars, req,
                              admin_pc, puzzle_log, timerVars, sessionVars,
                              historyVars>>
             ELSE AdminEnterLock(u.difficulty,
                     <<argon2_time_cost, argon2_memory_cost, argon2_parallelism>>)
    /\ UNCHANGED <<difficulty_float, ema_solve_time, last_solve_time,
                   solve_history, solve_time_chart_history, configVars>>

\* Lines 232-245: the Argon2 parameters after the body, and whether an error
\* is returned.
Argon2Update(btime, bmemory, bpar) ==
    LET timeBad == btime # None /\ (btime < 1 \/ btime > 10)
        t1 == IF btime # None /\ ~timeBad THEN btime ELSE argon2_time_cost
        memBad == bmemory # None /\ (bmemory < 1024 \/ bmemory > 1048576)
        m1 == IF bmemory # None /\ ~memBad THEN bmemory ELSE argon2_memory_cost
        parBad == bpar # None /\ (bpar < 1 \/ bpar > 8)
        p1 == IF bpar # None /\ ~parBad THEN bpar ELSE argon2_parallelism
    IN IF timeBad THEN
          [args |-> <<argon2_time_cost, argon2_memory_cost, argon2_parallelism>>,
           error |-> TRUE]
       ELSE IF memBad THEN
          [args |-> <<t1, argon2_memory_cost, argon2_parallelism>>, error |-> TRUE]
       ELSE IF parBad THEN
          [args |-> <<t1, m1, argon2_parallelism>>, error |-> TRUE]
       ELSE
          [args |-> <<t1, m1, p1>>, error |-> FALSE]

\* Lines 226-271.
UpdateArgon2(btime, bmemory, bpar) ==
    /\ admin_pc.pc = "idle"
    /\ LET u == Argon2Update(btime, bmemory, bpar)
       IN /\ argon2_time_cost' = u.args[1]
          /\ argon2_memory_cost' = u.args[2]
          /\ argon2_parallelism' = u.args[3]
          /\ ph' = IF u.error THEN ph ELSE u.args
          /\ IF u.error
             THEN UNCHANGED <<now, current_seed, lockVars, taskVars, req,
                              admin_pc, puzzle_log, timerVars, sessionVars,
                              historyVars>>
             ELSE AdminEnterLock(difficulty, u.args)
    /\ UNCHANGED <<difficultyVars, max_nonce_speed, hmac_secret,
                   target_time_min, target_time_max, hashrate_chart_history,
                   authVars, poolVars>>

\* Time passes.
Tick ==
    /\ now + TickSeconds <= MaxTime
    /\ now' = now + TickSeconds
    /\ UNCHANGED <<engineSide, timerVars, sessionVars, historyVars>>

(***************************************************************************)
(* The state after SystemState() is constructed and the lifespan has       *)
(* started the first watcher task.  max_nonce_speed is in nonces per       *)
(* 1000 s.                                                                 *)
(***************************************************************************)
SetTimerInit ==
    /\ active_miners = {}
    /\ total_mining_time = 0
    /\ last_mining_state_change = None
    /\ is_mining_active = FALSE

\* admin_auth.py after import.
NoReply == [ip |-> None, auth |-> "none", status |-> None, seq |-> 0]

InitAuth ==
    /\ failed_attempts = [i \in IPs |-> 0]
    /\ lockout_until = [i \in IPs |-> 0]
    /\ admin_reply = NoReply
    /\ auth_streak = [i \in IPs |-> 0]
    /\ auth_locked_at = [i \in IPs |-> None]

\* executor.py after import, and after the lifespan has called
\* init_process_pool (main.py line 98).
NoCall == [op |-> "none", raised |-> FALSE, pool |-> None]

InitPoolImported ==
    /\ executor = None
    /\ pools = [p \in PoolIds |-> "none"]
    /\ executor_call = NoCall

InitPoolStarted ==
    /\ executor = 1
    /\ pools = [p \in PoolIds |-> IF p = 1 THEN "running" ELSE "none"]
    /\ executor_call = [op |-> "init", raised |-> FALSE, pool |-> 1]

\* The engine's fields for the configured difficulty d, its range mn..mx and
\* the speed limit, after n puzzles that were each solved in exactly
\* target_time seconds (the EMA is target_time, every step was 0 and the
\* difficulty is still d) and n samples of the hashrate chart taken while no
\* client reported a rate.  Time and seeds are counted from that state.
InitEngineFilled(d, mn, mx, limit, n) ==
    /\ current_seed = 0
    /\ difficulty = d
    /\ difficulty_float = 8 * d
    /\ min_difficulty = mn
    /\ max_difficulty = mx
    /\ ema_solve_time = IF n = 0 THEN None ELSE 10 * target_time
    /\ last_solve_time = IF n = 0 THEN None ELSE target_time
    /\ solve_history =
          [i \in 1..(IF n < solve_history_maxlen THEN n
                     ELSE solve_history_maxlen) |-> target_time]
    /\ solve_time_chart_history = [i \in 1..n |-> target_time]
    /\ max_nonce_speed = limit
    /\ hmac_secret = 1
    /\ argon2_time_cost = default_time_cost
    /\ argon2_memory_cost = default_memory_cost
    /\ argon2_parallelism = default_parallelism
    /\ ph = <<default_time_cost, default_memory_cost, default_parallelism>>
    /\ target_time_min = None
    /\ target_time_max = None
    /\ hashrate_chart_history = [i \in 1..n |-> 0]
    /\ lock_locked = FALSE
    /\ lock_waiters = <<>>
    /\ timeout_task = 1
    /\ wtask = [w \in Tasks |-> IF w = 1 THEN "sleep" ELSE "none"]
    /\ req = [r \in Requests |-> NoReq]
    /\ admin_pc = AdminIdle
    /\ puzzle_log = [k \in 0..MaxSeed |->
          [difficulty |-> IF k = 0 THEN d ELSE None,
           argon2 |-> IF k = 0
                      THEN <<default_time_cost, default_memory_cost,
                             default_parallelism>>
                      ELSE <<>>,
           reset_by |-> "none", audience |-> {},
           sent |-> [c \in Sockets |-> 0]]]

InitEngineFields(d, mn, mx, limit) == InitEngineFilled(d, mn, mx, limit, 0)

InitEngineWith(d, mn, mx, limit) ==
    /\ InitEngineFields(d, mn, mx, limit)
    /\ InitAuth
    /\ InitPoolStarted

InitEngineSide(limit) ==
    InitEngineWith(initial_difficulty, initial_min_difficulty,
                   initial_max_difficulty, limit)

Init ==
    /\ now = 0
    /\ SetTimerInit
    /\ active_connections = {}
    /\ session_tokens = [k \in Sockets |-> NoToken]
    /\ client_hashrates = [k \in Sockets |-> NoRate]
    /\ ip_connections = [i \in IPs |-> None]
    /\ banned_ips = {}
    /\ ws = [k \in Sockets |-> NoWs]
    /\ kick_all_pc = "idle"
    /\ issued_ip = [k \in Sockets |-> None]
    /\ ever_revoked = {}
    /\ InitEngineSide(0)

\* A state the service reaches from Init: every socket s has completed a
\* first connection from ip s (CAPTCHA passed, token s sent) and is in its
\* receive loop.  max_nonce_speed is either disabled or SpeedLimit.
InitConnected ==
    /\ now = 0
    /\ SetTimerInit
    /\ active_connections = {1}
    /\ session_tokens = generate_session_token([j \in Sockets |-> NoToken], 1, 1)
    /\ client_hashrates = [k \in Sockets |-> NoRate]
    /\ ip_connections = [i \in IPs |-> IF i = 1 THEN 1 ELSE None]
    /\ banned_ips = {}
    /\ ws = [k \in Sockets |->
               IF k = 1 THEN [NoWs EXCEPT !.pc = "open", !.ip = 1, !.token = 0,
                                          !.mode = "first", !.ua_ok = TRUE,
                                          !.captcha = "passed"]
               ELSE NoWs]
    /\ kick_all_pc = "idle"
    /\ issued_ip = [k \in Sockets |-> IF k = 1 THEN 1 ELSE None]
    /\ ever_revoked = {}
    /\ \E limit \in {0, SpeedLimit} : InitEngineSide(limit)

\* Rates of the hashrate messages: below the range, in it, and at its open end.
HashrateInputs == {-1, 999, 1000}

\* Session store and admission: handshakes, disconnects, revocation, bans,
\* the sweeper.
NextSession ==
    \/ \E s \in Sockets, ip \in IPs, ua_ok \in BOOLEAN,
          token \in {None} \cup (0..MaxSockets) : WsConnect(s, ip, ua_ok, token)
    \/ \E s \in Sockets, is_valid \in BOOLEAN : WsCaptchaDone(s, is_valid)
    \/ \E s \in Sockets : WsAcceptedFirst(s)
    \/ \E s \in Sockets : WsTokenSent(s)
    \/ \E s \in Sockets : WsTokenSendFails(s)
    \/ \E s \in Sockets : WsAcceptedReconnect(s)
    \/ \E s \in Sockets : WsDisconnect(s)
    \/ KickAllBegin
    \/ KickAllFinish
    \/ \E ip \in IPs : KickIp(ip)
    \/ \E ip \in IPs : Unban(ip)
    \/ ClearSessions
    \/ Sweeper
    \/ Tick

SpecSession == Init /\ [][NextSession]_vars

\* Connection registry and mining timer: handshakes, disconnects, the
\* messages of the receive loop, kick-all.
NextMining ==
    \/ \E s \in Sockets, ip \in IPs, ua_ok \in BOOLEAN,
          token \in {None} \cup (0..MaxSockets) : WsConnect(s, ip, ua_ok, token)
    \/ \E s \in Sockets, is_valid \in BOOLEAN : WsCaptchaDone(s, is_valid)
    \/ \E s \in Sockets : WsAcceptedFirst(s)
    \/ \E s \in Sockets : WsTokenSent(s)
    \/ \E s \in Sockets : WsTokenSendFails(s)
    \/ \E s \in Sockets : WsAcceptedReconnect(s)
    \/ \E s \in Sockets : WsMiningStart(s)
    \/ \E s \in Sockets : WsMiningStop(s)
    \/ \E s \in Sockets, rate \in HashrateInputs : WsHashrate(s, rate)
    \/ \E s \in Sockets : WsDisconnect(s)
    \/ KickAllBegin
    \/ KickAllFinish
    \/ Tick

SpecMining == Init /\ [][NextMining]_vars

\* Puzzle engine: verify requests, the timeout watcher, admin resets, the
\* miners' start/stop messages.
Visitors == {1}

NextEngine ==
    \/ \E r \in Requests, token \in Sockets, ip \in IPs, visitor \in Visitors,
          nonce \in Nonces, seed \in 0..current_seed, trace \in IPs,
          wrong \in BOOLEAN :
          VerifyBegin(r, token, ip, visitor, nonce, seed, trace,
              (Argon2d(nonce, seed, visitor, trace, argon2_time_cost,
                       argon2_memory_cost, argon2_parallelism)
                 + (IF wrong THEN 1 ELSE 0)) % HashSpace)
    \/ \E r \in Requests : VerifyAcquire(r)
    \/ \E r \in Requests : VerifyPoolDone(r)
    \/ \E r \in Requests : VerifyBroadcastDone(r)
    \/ \E w \in Tasks : WatcherWake(w)
    \/ \E w \in Tasks : WatcherAcquire(w)
    \/ AdminResetBegin
    \/ AdminResetAcquire
    \/ AdminResetBroadcastDone
    \/ \E s \in Sockets : WsMiningStart(s)
    \/ \E s \in Sockets : WsMiningStop(s)
    \/ Tick

Spec == InitConnected /\ [][NextEngine]_vars

(***************************************************************************)
(* Properties of the puzzle engine (checked under Spec).                   *)
(***************************************************************************)
\* The hash the server recomputes for the submission of a request record.
Recomputed(rec) ==
    Argon2d(rec.nonce, rec.submittedSeed, rec.visitorId, rec.traceData,
            argon2_time_cost, argon2_memory_cost, argon2_parallelism)

\* A submission that is valid for its seed: it passed the identity checks, its
\* hash is the recomputed one and meets the difficulty the seed was issued
\* with, and no speed limit applies to it.
ValidFor(r, S) ==
    /\ req[r].submittedSeed = S
    /\ req[r].hash = Recomputed(req[r])
    /\ leading_zero_bits(req[r].hash) >= puzzle_log[S].difficulty
    /\ (max_nonce_speed <= 0 \/ req[r].nonce = 0)

Winners(S) == {r \in Requests : req[r].status = 200 /\ req[r].submittedSeed = S}

\* Some submission for seed S is still being handled.
InFlight(S) ==
    \E r \in Requests :
       req[r].submittedSeed = S /\ req[r].pc \notin {"idle", "done"}

\* C1 -- Single winner: among the verify submissions that are valid for the
\* same seed S, however their handlers interleave at the lock and at the
\* worker pool, at most one is answered with an invite code, every answered
\* one gets either the invite code or 409; and once no submission for S is
\* in flight any more, exactly one has the invite code, unless the watcher or
\* an admin retired S.
C1_SingleWinner ==
    \A S \in 0..MaxSeed :
       LET valid == {r \in Requests : req[r].pc # "idle" /\ ValidFor(r, S)}
           answered == {r \in valid : req[r].pc = "done"}
       IN /\ Cardinality(Winners(S)) <= 1
          /\ \A r \in answered : req[r].status \in {200, 409}
          /\ (valid # {} /\ ~InFlight(S)
                /\ puzzle_log[S].reset_by \notin {"watcher", "admin"})
             => Cardinality(Winners(S)) = 1

\* Two valid submissions for one seed were in flight together (the second
\* waited for the lock); one got the invite code, the other 409.
C1_Witness ==
    \E r1, r2 \in Requests :
       /\ r1 # r2
       /\ ValidFor(r1, req[r1].submittedSeed)
       /\ ValidFor(r2, req[r1].submittedSeed)
       /\ req[r1].status = 200
       /\ req[r2].status = 409
       /\ req[r2].waited
       /\ req[r1].pc = "done" /\ req[r2].pc = "done"

\* C2 -- Linearizability: while a submission is in the worker pool, and when
\* it calls reset_puzzle, the seed it matched at the double check is still
\* the current seed: the seed it retired is its own, the puzzle history
\* attributes that seed to a submission, and no seed has two invite codes.
C2_Linearizable ==
    /\ \A r \in Requests :
          /\ req[r].pc = "in_pool" => current_seed = req[r].submittedSeed
          /\ req[r].invite_code # None =>
                /\ req[r].reset_seed = req[r].submittedSeed
                /\ puzzle_log[req[r].submittedSeed].reset_by = "verify"
    /\ \A r1, r2 \in Requests :
          (r1 # r2 /\ req[r1].invite_code # None /\ req[r2].invite_code # None)
             => req[r1].submittedSeed # req[r2].submittedSeed

\* A submission won while an admin reset waited for the lock and the watcher
\* had been cancelled: the other resets were kept out until it had reset.
C2_Witness ==
    \E r \in Requests :
       /\ req[r].status = 200
       /\ req[r].reset_seed = req[r].submittedSeed
       /\ admin_pc.pc = "wait_lock"
       /\ \E w \in Tasks : wtask[w] = "cancelled"

\* C3 -- Every submission with an invite code carried the hash the server
\* recomputed from (nonce, seed, visitor id, trace data), and that hash has at
\* least D leading zero bits, D being the difficulty of its puzzle handed to
\* the verifier; a submission whose hash differs is answered "Hash mismatch",
\* whatever its leading zero bits, and "does not meet difficulty" is only
\* said of a matching hash.
C3_WinnerHashMeetsDifficulty ==
    \A r \in Requests :
       /\ req[r].invite_code # None =>
             /\ req[r].hash = Recomputed(req[r])
             /\ leading_zero_bits(req[r].hash) >= req[r].args[1]
             /\ req[r].args[1] = puzzle_log[req[r].submittedSeed].difficulty
       /\ (req[r].status = 400 /\ req[r].args # <<>>
             /\ req[r].hash # Recomputed(req[r]))
          => req[r].detail = "Hash mismatch"
       /\ req[r].detail = "Hash does not meet difficulty requirement"
          => /\ req[r].hash = Recomputed(req[r])
             /\ leading_zero_bits(req[r].hash) < req[r].args[1]

\* One submission has an invite code, another was answered "Hash mismatch"
\* although the hash it carried also fails the difficulty.
C3_Witness ==
    \E r1, r2 \in Requests :
       /\ req[r1].invite_code # None
       /\ req[r1].status = 200
       /\ req[r2].status = 400
       /\ req[r2].detail = "Hash mismatch"
       /\ leading_zero_bits(req[r2].hash) < req[r2].args[1]

(***************************************************************************)
(* Properties of the session store and of admission (SpecSession).         *)
(***************************************************************************)
\* The results of the operations that rewrite token entries, on the current
\* store.
StoreAfterOps ==
    {reconnect_session_token(session_tokens, k, w) : k \in Sockets, w \in Sockets}
    \cup {revoke_session_token(session_tokens, w, now) : w \in Sockets}
    \cup {revoke_tokens_by_ip(session_tokens, ip, now) : ip \in IPs}
    \cup {revoke_all_tokens(session_tokens, now),
          cleanup_expired_tokens(session_tokens, now)}

\* C4 -- Identity binding: a token keeps the ip it was generated for (no
\* reachable store, and no result of reconnect, mark-disconnected, revoke or
\* the sweeper on it, shows another ip), and validation from every other ip
\* fails.
C4_IdentityBinding ==
    \A k \in Sockets :
       session_tokens[k].present =>
          /\ session_tokens[k].ip = issued_ip[k]
          /\ \A st \in StoreAfterOps : st[k].present => st[k].ip = issued_ip[k]
          /\ \A ip \in IPs \ {issued_ip[k]} :
                ~validate_session_token(session_tokens, k, ip, now)

\* A token re-bound to another socket by a reconnect, still valid from its
\* own ip.
C4_Witness ==
    \E k \in Sockets :
       /\ session_tokens[k].present
       /\ session_tokens[k].websocket \notin {k, None}
       /\ validate_session_token(session_tokens, k, issued_ip[k], now)

\* C5 -- Revocation: a token that revoke_tokens_by_ip or revoke_all_tokens has
\* marked fails validation from every ip in every later state, sweeper or
\* not, reconnect or not; revoking a second time changes nothing.
C5_RevocationPermanent ==
    /\ \A k \in ever_revoked, ip \in IPs :
          ~validate_session_token(session_tokens, k, ip, now)
    /\ \A t \in {now, now + TickSeconds, MaxTime} :
          /\ revoke_all_tokens(revoke_all_tokens(session_tokens, now), t)
                = revoke_all_tokens(session_tokens, now)
          /\ \A ip \in IPs :
                revoke_tokens_by_ip(revoke_tokens_by_ip(session_tokens, ip, now),
                                    ip, t)
                   = revoke_tokens_by_ip(session_tokens, ip, now)

\* A revoked token, not yet swept, that a reconnect admitted before the
\* revocation has since marked connected again.
C5_Witness ==
    \E k \in ever_revoked :
       /\ session_tokens[k].present
       /\ session_tokens[k].revoked
       /\ session_tokens[k].is_connected

\* The handlers that were given token k: the first connection it was
\* generated on and the reconnects that presented it.
ConnectionsOf(k) ==
    {s \in Sockets :
        \/ s = k /\ ws[s].mode = "first"
              /\ ws[s].pc \in {"send_token", "open", "ended"}
        \/ ws[s].mode = "reconnect" /\ ws[s].token = k}

\* C6 -- Token expiry: when every connection that held token k has gone
\* through its disconnect cleanup more than token_expiry_seconds ago,
\* validation of k from its own ip fails.
C6_TokenExpiry ==
    \A k \in Sockets :
       (/\ session_tokens[k].present
        /\ ConnectionsOf(k) # {}
        /\ \A s \in ConnectionsOf(k) :
              /\ ws[s].pc = "ended"
              /\ ws[s].ended_at # None
              /\ now - ws[s].ended_at > token_expiry_seconds)
       => ~validate_session_token(session_tokens, k, issued_ip[k], now)

\* C7 -- Reconnect idempotence: while the connection of an unrevoked token is
\* up the token validates from its ip, and the step that completes a
\* reconnect re-binds the token to the new socket, marks it connected, clears
\* disconnected_at and (unless revoked meanwhile) leaves it valid.
C7_ReconnectRebinds ==
    [][/\ \A s \in Sockets :
             (/\ ws'[s].pc \in {"send_token", "open"}
              /\ ws'[s].mode = "first"
              /\ session_tokens'[s].present
              /\ ~session_tokens'[s].revoked)
             => validate_session_token(session_tokens', s, ws'[s].ip, now')
       /\ \A s \in Sockets :
             (/\ ws[s].pc = "accept_reconnect"
              /\ ws'[s].pc = "open"
              /\ session_tokens[ws[s].token].present)
             => LET k == ws[s].token
                IN /\ session_tokens'[k].websocket = s
                   /\ session_tokens'[k].is_connected
                   /\ session_tokens'[k].disconnected_at = None
                   /\ session_tokens'[k].ip = ws[s].ip
                   /\ ~session_tokens[k].revoked =>
                         validate_session_token(session_tokens', k, ws[s].ip, now')
      ]_vars

\* The first connection of token k has disconnected, a reconnect with k is in
\* its receive loop, and k is bound to it and valid.
C7_Witness ==
    \E s \in Sockets :
       /\ ws[s].mode = "reconnect"
       /\ ws[s].pc = "open"
       /\ ws[ws[s].token].pc = "ended"
       /\ ws[ws[s].token].ended_at # None
       /\ session_tokens[ws[s].token].websocket = s
       /\ session_tokens[ws[s].token].is_connected
       /\ validate_session_token(session_tokens, ws[s].token, ws[s].ip, now)

\* C8 -- At most one accepted connection per ip is in the connection
\* registry.
C8_OneConnectionPerIp ==
    \A ip \in IPs :
       Cardinality({s \in active_connections :
                       ws[s].ip = ip /\ ws[s].pc \in {"send_token", "open"}}) <= 1

(***************************************************************************)
(* Properties of the connection registry and the mining timer (SpecMining).*)
(***************************************************************************)
\* C9 -- Reconnect eviction: the step that admits a reconnect while another
\* connection is registered for the ip closes that connection and removes
\* it from the active connections, the hashrate map, the active miners and
\* the ip map.
C9_ReconnectEviction ==
    [][\A s \in Sockets :
          (/\ ws[s].pc = "new"
           /\ ws'[s].pc = "accept_reconnect"
           /\ ip_connections[ws'[s].ip] # None)
          => LET old_ws == ip_connections[ws'[s].ip]
             IN /\ ws'[old_ws].closed # None
                /\ old_ws \notin active_connections'
                /\ ~client_hashrates'[old_ws].present
                /\ old_ws \notin active_miners'
                /\ ip_connections'[ws'[s].ip] # old_ws
      ]_vars

\* C10 -- Timer monotonicity: as long as the seed stays the same, no step
\* lowers the value of get_current_mining_time.
C10_TimerMonotonic ==
    [][current_seed' = current_seed
          => get_current_mining_time(Timer', now')
                >= get_current_mining_time(Timer, now)]_vars

\* C11 -- Timer only while miners: a step raises the value of
\* get_current_mining_time only if, before the step, some member of
\* active_miners is a connected socket (its handler is in the receive loop
\* and has not yet run its cleanup).
C11_TimerOnlyWhileMiners ==
    [][get_current_mining_time(Timer', now') > get_current_mining_time(Timer, now)
          => \E s \in active_miners : ws[s].pc = "open"]_vars

(***************************************************************************)
(* Properties of the timeout watcher and the difficulty controller (Spec). *)
(***************************************************************************)
\* C12 -- Watcher reset and broadcast: when the watcher has retired a seed
\* (its task ends in the step that retires it), every socket registered at
\* that time has been sent exactly one PUZZLE_RESET frame for that seed.
C12_WatcherResetBroadcast ==
    \A k \in 0..MaxSeed :
       puzzle_log[k].reset_by = "watcher"
       => \A c \in puzzle_log[k].audience : puzzle_log[k].sent[c] = 1

(***************************************************************************)
(* The difficulty controller on its own: the configured difficulty and its *)
(* range are drawn from 1..MaxBits with min <= difficulty <= max, and the  *)
(* controller is fed solve times (the winning path of verify_solution) and *)
(* virtual solves of target_timeout seconds (the watcher).                 *)
(***************************************************************************)
MaxBits == 6
MaxSolves == 3
SolveTimes == {0, 40, 150, 1200}

InitDifficulty ==
    /\ now = 0
    /\ SetTimerInit
    /\ active_connections = {}
    /\ session_tokens = [k \in Sockets |-> NoToken]
    /\ client_hashrates = [k \in Sockets |-> NoRate]
    /\ ip_connections = [i \in IPs |-> None]
    /\ banned_ips = {}
    /\ ws = [k \in Sockets |-> NoWs]
    /\ kick_all_pc = "idle"
    /\ issued_ip = [k \in Sockets |-> None]
    /\ ever_revoked = {}
    /\ \E mn \in 1..MaxBits, mx \in 1..MaxBits, d \in 1..MaxBits :
          /\ mn <= d
          /\ d <= mx
          /\ InitEngineWith(d, mn, mx, 0)

\* routes.py lines 275-276: the controller's part of a winning submission.
ControllerSolve(solve_time) ==
    /\ Len(solve_time_chart_history) < MaxSolves
    /\ adjust_difficulty(solve_time)
    /\ record_solve_time(solve_time)
    /\ UNCHANGED <<now, current_seed, configVars, lockVars, taskVars, req,
                   admin_pc, puzzle_log, timerVars, sessionVars, historyVars>>

\* state.py line 321: the watcher's virtual solve, which takes target_timeout
\* seconds of mining to come about.
ControllerTimeout ==
    /\ now + target_timeout <= MaxTime
    /\ now' = now + target_timeout
    /\ adjust_difficulty(target_timeout)
    /\ UNCHANGED <<current_seed, solve_history, solve_time_chart_history,
                   configVars, lockVars, taskVars, req, admin_pc, puzzle_log,
                   timerVars, sessionVars, historyVars>>

NextDifficultyController ==
    \/ \E solve_time \in SolveTimes : ControllerSolve(solve_time)
    \/ ControllerTimeout

SpecDifficulty == InitDifficulty /\ [][NextDifficultyController]_vars

\* C13 -- Difficulty clamp: every adjust_difficulty call made in a state
\* with min_difficulty <= difficulty <= max_difficulty leaves difficulty
\* within that range and moves difficulty_float by at most 4 bits (32
\* eighths).
C13_DifficultyClamp ==
    [][(/\ ema_solve_time' # ema_solve_time \/ last_solve_time' # last_solve_time
           \/ difficulty_float' # difficulty_float
        /\ min_difficulty <= difficulty
        /\ difficulty <= max_difficulty)
          => /\ min_difficulty' <= difficulty'
             /\ difficulty' <= max_difficulty'
             /\ difficulty_float' - difficulty_float <= 32
             /\ difficulty_float - difficulty_float' <= 32]_vars

\* Two instant solves from a configured difficulty more than 4 bits below
\* the maximum: the first call moved difficulty_float by the full 4 bits, the
\* second was stopped by the range.
C13_Witness ==
    /\ solve_history = <<0, 0>>
    /\ ema_solve_time = 0
    /\ max_difficulty - puzzle_log[0].difficulty > 4
    /\ difficulty_float = 8 * max_difficulty
    /\ difficulty = max_difficulty

(***************************************************************************)
(* The puzzle engine under parameter updates by the admin: verify requests *)
(* of the connected client, update_difficulty and update_argon2.           *)
(***************************************************************************)
DifficultyInputs == {None, 0, 3}
TimeCostInputs == {None, 4}
MemoryCostInputs == {None, 1023}
ParallelismInputs == {None, 2}

NextControl ==
    \/ \E r \in Requests, nonce \in {0}, seed \in {current_seed},
          wrong \in BOOLEAN :
          VerifyBegin(r, 1, 1, 1, nonce, seed, 1,
              (Argon2d(nonce, seed, 1, 1, argon2_time_cost,
                       argon2_memory_cost, argon2_parallelism)
                 + (IF wrong THEN 1 ELSE 0)) % HashSpace)
    \/ \E r \in Requests : VerifyAcquire(r)
    \/ \E r \in Requests : VerifyPoolDone(r)
    \/ \E r \in Requests : VerifyBroadcastDone(r)
    \/ \E bmin \in DifficultyInputs, bmax \in DifficultyInputs,
          bd \in DifficultyInputs : UpdateDifficulty(bmin, bmax, bd)
    \/ \E btime \in TimeCostInputs, bmemory \in MemoryCostInputs,
          bpar \in ParallelismInputs : UpdateArgon2(btime, bmemory, bpar)
    \/ AdminResetAcquire
    \/ AdminResetBroadcastDone

SpecControl == InitConnected /\ [][NextControl]_vars

\* C14 -- Difficulty invariants: min_difficulty <= difficulty <=
\* max_difficulty and floor(difficulty_float) <= difficulty <=
\* ceil(difficulty_float) (difficulty_float is in eighths of a bit).
C14_DifficultyInvariants ==
    /\ min_difficulty <= difficulty
    /\ difficulty <= max_difficulty
    /\ difficulty_float \div 8 <= difficulty
    /\ 8 * difficulty <= difficulty_float + 7

\* C15 -- No straddling of a parameter change: every submission handed to
\* the verifier was handed over with the difficulty and the Argon2
\* parameters with which its seed was issued.
C15_NoStraddle ==
    \A r \in Requests :
       req[r].args # <<>>
       => /\ req[r].args[1] = puzzle_log[req[r].submittedSeed].difficulty
          /\ <<req[r].args[2], req[r].args[3], req[r].args[4]>>
                = puzzle_log[req[r].submittedSeed].argon2

(***************************************************************************)
(* Bans: the connected client of ip 1 reports hashrates and submits        *)
(* solutions with its token, a second socket connects, the admin kicks and *)
(* unbans ips.                                                             *)
(***************************************************************************)
NextBan ==
    \/ \E s \in Sockets, ip \in IPs, token \in {0} \cup Sockets :
          WsConnect(s, ip, TRUE, token)
    \/ \E s \in Sockets, is_valid \in BOOLEAN : WsCaptchaDone(s, is_valid)
    \/ \E s \in Sockets : WsAcceptedFirst(s)
    \/ \E s \in Sockets : WsTokenSent(s)
    \/ \E s \in Sockets : WsTokenSendFails(s)
    \/ \E s \in Sockets : WsAcceptedReconnect(s)
    \/ \E s \in Sockets, rate \in HashrateInputs : WsHashrate(s, rate)
    \/ \E s \in Sockets : WsDisconnect(s)
    \/ \E ip \in IPs : KickIp(ip)
    \/ \E ip \in IPs : Unban(ip)
    \/ \E r \in Requests, nonce \in Nonces, wrong \in BOOLEAN :
          VerifyBegin(r, 1, 1, 1, nonce, current_seed, 1,
              (Argon2d(nonce, current_seed, 1, 1, argon2_time_cost,
                       argon2_memory_cost, argon2_parallelism)
                 + (IF wrong THEN 1 ELSE 0)) % HashSpace)
    \/ \E r \in Requests : VerifyAcquire(r)
    \/ \E r \in Requests : VerifyPoolDone(r)
    \/ \E r \in Requests : VerifyBroadcastDone(r)

SpecBan == InitConnected /\ [][NextBan]_vars

\* C16 -- Kick closes the connections: in the step in which kick_ip bans an
\* ip, every registered, accepted and still open socket of that ip is closed
\* with code 1000.
C16_KickClosesConnections ==
    [][\A ip \in IPs :
          (ip \in banned_ips' /\ ip \notin banned_ips)
          => \A s \in active_connections :
                (/\ ws[s].ip = ip
                 /\ ws[s].pc \in {"send_token", "open"}
                 /\ ws[s].closed = None)
                => ws'[s].closed = 1000]_vars

\* C17 -- Banned ip gets 403: a POST /api/verify that ip 1 makes with the
\* token it holds (token 1) while ip 1 is in banned_ips is answered 403.
C17_BannedVerifyForbidden ==
    [][\A r \in Requests :
          (req[r].pc = "idle" /\ req'[r].pc # "idle" /\ 1 \in banned_ips)
          => req'[r].status = 403]_vars

(***************************************************************************)
(* The issuing step on its own: invite codes are derived for submissions   *)
(* drawn from small sets, in states that differ in time, difficulty and    *)
(* connections.                                                            *)
(***************************************************************************)
InviteVisitors == {1, 2}

\* routes.py lines 262-267 for request r; args and solve_time record the
\* state the code was issued in.
IssueInvite(r, visitor, nonce, seed) ==
    /\ req[r].pc = "idle"
    /\ \A k \in Requests : k < r => req[k].pc # "idle"
    /\ req' = [req EXCEPT ![r] =
          Respond([NoReq EXCEPT
                      !.visitorId = visitor, !.nonce = nonce,
                      !.submittedSeed = seed,
                      !.solve_time = now,
                      !.args = <<difficulty, argon2_time_cost,
                                 argon2_memory_cost, argon2_parallelism>>,
                      !.invite_code = generate_invite_code(hmac_secret,
                                          visitor, nonce, seed)],
                  200, "")]
    /\ UNCHANGED <<now, current_seed, difficultyVars, configVars, lockVars,
                   taskVars, admin_pc, puzzle_log, timerVars, sessionVars,
                   historyVars>>

NextInvite ==
    \/ \E r \in Requests, visitor \in InviteVisitors, nonce \in Nonces,
          seed \in 0..MaxSeed : IssueInvite(r, visitor, nonce, seed)
    \/ ControllerTimeout
    \/ \E s \in Sockets : WsDisconnect(s)
    \/ Tick

SpecInvite == InitConnected /\ [][NextInvite]_vars

AuthInputs == {"missing", "malformed", "wrong", "correct"}

\* Fault variant of require_admin: the token is looked at before the
\* lockout.
require_admin_token_first(ip, auth) ==
    IF auth = "correct" THEN [status |-> 200, attempts |-> 0, lockout |-> 0]
    ELSE IF lockout_until[ip] # 0 /\ now < lockout_until[ip] THEN
       [status |-> 429, attempts |-> failed_attempts[ip],
        lockout |-> lockout_until[ip]]
    ELSE IF auth \in {"missing", "malformed"} THEN
       [status |-> 401, attempts |-> failed_attempts[ip],
        lockout |-> lockout_until[ip]]
    ELSE IF failed_attempts[ip] + 1 >= MAX_FAILURES THEN
       [status |-> 429, attempts |-> 0, lockout |-> now + LOCKOUT_SECONDS]
    ELSE
       [status |-> 403, attempts |-> failed_attempts[ip] + 1,
        lockout |-> lockout_until[ip]]

\* require_admin for a request of ip: the HTTP status (200 when the
\* dependency returns) and the ip's entries afterwards.
require_admin(ip, auth) ==
    IF lockout_until[ip] # 0 /\ now < lockout_until[ip] THEN
       [status |-> 429, attempts |-> failed_attempts[ip],
        lockout |-> lockout_until[ip]]
    ELSE IF auth \in {"missing", "malformed"} THEN
       [status |-> 401, attempts |-> failed_attempts[ip],
        lockout |-> lockout_until[ip]]
    ELSE IF auth = "wrong" THEN
       (IF failed_attempts[ip] + 1 >= MAX_FAILURES
        THEN [status |-> 429, attempts |-> 0,
              lockout |-> now + LOCKOUT_SECONDS]
        ELSE [status |-> 403, attempts |-> failed_attempts[ip] + 1,
              lockout |-> lockout_until[ip]])
    ELSE [status |-> 200, attempts |-> 0, lockout |-> 0]

\* History: the wrong tokens ip has presented in a row, the row being ended
\* by an accepted token and by the end of a lockout.
StreakOf(ip) ==
    IF auth_streak[ip] >= MAX_FAILURES
       /\ now >= auth_locked_at[ip] + LOCKOUT_SECONDS
    THEN 0 ELSE auth_streak[ip]

\* A request of ip to an endpoint that only reads (GET /api/admin/status).
AdminRequest(ip, auth) ==
    /\ LET res == require_admin(ip, auth)
           counts == auth = "wrong" /\ StreakOf(ip) < MAX_FAILURES
       IN /\ failed_attempts' = [failed_attempts EXCEPT ![ip] = res.attempts]
          /\ lockout_until' = [lockout_until EXCEPT ![ip] = res.lockout]
          /\ admin_reply' = [ip |-> ip, auth |-> auth, status |-> res.status,
                             seq |-> 1 - admin_reply.seq]
          /\ auth_streak' = [auth_streak EXCEPT ![ip] =
                IF res.status = 200 THEN 0
                ELSE IF counts THEN StreakOf(ip) + 1
                ELSE StreakOf(ip)]
          /\ auth_locked_at' = [auth_locked_at EXCEPT ![ip] =
                IF res.status # 200 /\ counts
                   /\ StreakOf(ip) + 1 = MAX_FAILURES
                THEN now ELSE @]
    /\ UNCHANGED <<now, current_seed, difficultyVars, max_nonce_speed,
                   hmac_secret, argon2_time_cost, argon2_memory_cost,
                   argon2_parallelism, tuningVars, poolVars, lockVars,
                   taskVars, req,
                   admin_pc, puzzle_log, timerVars, sessionVars, historyVars>>

\* AuthStep seconds pass.
AuthElapse ==
    /\ now + AuthStep <= MaxTime
    /\ now' = now + AuthStep
    /\ UNCHANGED <<engineSide, timerVars, sessionVars, historyVars>>

NextAuth ==
    \/ \E ip \in IPs, auth \in AuthInputs : AdminRequest(ip, auth)
    \/ AuthElapse

SpecAuth == Init /\ [][NextAuth]_vars

\* C19 -- Admin lockout: once an ip has presented MAX_FAILURES wrong tokens
\* in a row, each of its requests to an endpoint guarded by require_admin,
\* the correct token included, is answered 429 until LOCKOUT_SECONDS have
\* passed; a wrong token before the limit is answered 403; an accepted token
\* clears the ip's failure counter.
C19_AdminLockout ==
    [][admin_reply' # admin_reply
          => LET ip == admin_reply'.ip
                 auth == admin_reply'.auth
                 status == admin_reply'.status
                 lockedOut == /\ auth_streak[ip] >= MAX_FAILURES
                              /\ now < auth_locked_at[ip] + LOCKOUT_SECONDS
             IN /\ lockedOut => status = 429
                /\ (~lockedOut /\ auth = "wrong"
                      /\ StreakOf(ip) + 1 < MAX_FAILURES) => status = 403
                /\ (~lockedOut /\ auth = "correct") => status = 200
                /\ status = 200 => failed_attempts'[ip] = 0]_vars

\* An ip was locked out AuthStep seconds ago and its request with the correct
\* token has just been answered 429, while the other ip has one wrong token
\* counted.
C19_Witness ==
    \E ip \in IPs, other \in IPs :
       /\ ip # other
       /\ admin_reply = [ip |-> ip, auth |-> "correct", status |-> 429,
                         seq |-> admin_reply.seq]
       /\ auth_streak[ip] = MAX_FAILURES
       /\ now = auth_locked_at[ip] + AuthStep
       /\ failed_attempts[other] = 1
       /\ auth_streak[other] = 1

(***************************************************************************)
(* executor.py: the process-wide worker pool.  A pool object is "none"     *)
(* (not created yet), "running" or "shutdown"; executor_call is the last   *)
(* call, whether it raised, and the pool it returned or was given.         *)
(***************************************************************************)
\* The object the next ProcessPoolExecutor(...) creates.
FreshPool ==
    CHOOSE p \in PoolIds :
       pools[p] = "none" /\ \A q \in PoolIds : q < p => pools[q] # "none"

\* init_process_pool, lines 13-36.
init_process_pool(max_workers) ==
    IF executor # None
    THEN [executor |-> executor, pools |-> pools,
          call |-> [op |-> "init", raised |-> TRUE, pool |-> None]]
    ELSE [executor |-> FreshPool,
          pools |-> [pools EXCEPT ![FreshPool] = "running"],
          call |-> [op |-> "init", raised |-> FALSE, pool |-> FreshPool]]

\* get_process_pool, lines 39-52; op is the caller's purpose.
get_process_pool(op) ==
    IF executor = None
    THEN [op |-> op, raised |-> TRUE, pool |-> None]
    ELSE [op |-> op, raised |-> FALSE, pool |-> executor]

\* Fault variant of shutdown_process_pool: _executor keeps the pool.
shutdown_keeps_executor(wait) ==
    IF executor # None
    THEN [executor |-> executor, pools |-> [pools EXCEPT ![executor] = "shutdown"],
          call |-> [op |-> "shutdown", raised |-> FALSE, pool |-> None]]
    ELSE [executor |-> executor, pools |-> pools,
          call |-> [op |-> "shutdown", raised |-> FALSE, pool |-> None]]

\* shutdown_process_pool, lines 55-67.
shutdown_process_pool(wait) ==
    IF executor # None
    THEN [executor |-> None, pools |-> [pools EXCEPT ![executor] = "shutdown"],
          call |-> [op |-> "shutdown", raised |-> FALSE, pool |-> None]]
    ELSE [executor |-> executor, pools |-> pools,
          call |-> [op |-> "shutdown", raised |-> FALSE, pool |-> None]]

PoolRest == <<now, current_seed, difficultyVars, max_nonce_speed, hmac_secret,
              argon2_time_cost, argon2_memory_cost, argon2_parallelism,
              tuningVars, authVars, lockVars, taskVars, req, admin_pc, puzzle_log,
              timerVars, sessionVars, historyVars>>

SetPool(res) ==
    /\ executor' = res.executor
    /\ pools' = res.pools
    /\ executor_call' = res.call
    /\ UNCHANGED PoolRest

InitProcessPool ==
    /\ executor # None \/ \E p \in PoolIds : pools[p] = "none"
    /\ SetPool(init_process_pool(None))

GetProcessPool ==
    SetPool([executor |-> executor, pools |-> pools,
             call |-> get_process_pool("get")])

\* loop.run_in_executor(get_process_pool(), ...): submitting to a pool that
\* was shut down raises.
SubmitWork ==
    LET got == get_process_pool("submit")
    IN SetPool([executor |-> executor, pools |-> pools,
                call |-> IF ~got.raised /\ pools[got.pool] # "running"
                         THEN [got EXCEPT !.raised = TRUE] ELSE got])

ShutdownProcessPool(wait) == SetPool(shutdown_process_pool(wait))

InitExecutor ==
    /\ now = 0
    /\ SetTimerInit
    /\ active_connections = {}
    /\ session_tokens = [k \in Sockets |-> NoToken]
    /\ client_hashrates = [k \in Sockets |-> NoRate]
    /\ ip_connections = [i \in IPs |-> None]
    /\ banned_ips = {}
    /\ ws = [k \in Sockets |-> NoWs]
    /\ kick_all_pc = "idle"
    /\ issued_ip = [k \in Sockets |-> None]
    /\ ever_revoked = {}
    /\ InitEngineFields(initial_difficulty, initial_min_difficulty,
                        initial_max_difficulty, 0)
    /\ InitAuth
    /\ InitPoolImported

NextExecutor ==
    \/ InitProcessPool
    \/ GetProcessPool
    \/ SubmitWork
    \/ \E wait \in BOOLEAN : ShutdownProcessPool(wait)

SpecExecutor == InitExecutor /\ [][NextExecutor]_vars

\* C20 -- Worker-pool lifecycle: init_process_pool raises exactly when a pool
\* is installed and otherwise installs a new running pool and returns it;
\* get_process_pool raises exactly when no pool is installed (before init,
\* after shutdown) and otherwise returns the installed pool, to which work
\* can be submitted; shutdown_process_pool never raises and leaves no pool
\* installed.
C20_PoolLifecycle ==
    [][(executor_call' # executor_call \/ executor' # executor)
          => LET call == executor_call'
             IN /\ call.op = "init" =>
                      /\ call.raised <=> executor # None
                      /\ call.raised => executor' = executor
                      /\ ~call.raised => /\ executor' = call.pool
                                         /\ pools[call.pool] = "none"
                                         /\ pools'[call.pool] = "running"
                /\ call.op \in {"get", "submit"} =>
                      /\ call.raised <=> executor = None
                      /\ executor' = executor
                      /\ ~call.raised => /\ call.pool = executor
                                         /\ pools[call.pool] = "running"
                /\ call.op = "shutdown" =>
                      /\ ~call.raised
                      /\ executor' = None
                      /\ executor # None => pools'[executor] = "shutdown"]_vars

\* A pool was initialized and shut down, init succeeded again, and work has
\* been submitted to the second pool.
C20_Witness ==
    /\ pools[1] = "shutdown"
    /\ pools[2] = "running"
    /\ executor = 2
    /\ executor_call = [op |-> "submit", raised |-> FALSE, pool |-> 2]

(***************************************************************************)
(* Properties of the hashrate reports (checked under SpecBan, where the    *)
(* speed limit is either disabled or SpeedLimit).                          *)
(***************************************************************************)
\* C21 -- Overspeed reports are kept apart: with a configured
\* max_nonce_speed > 0, no entry of client_hashrates (the map whose rates
\* get_network_hashrate adds up) holds a rate above max_nonce_speed, and
\* every stored rate is in [0, 1000).  max_nonce_speed is in nonces per
\* 1000 s, rates are per second.
C21_OverspeedKeptApart ==
    \A s \in Sockets :
       client_hashrates[s].present
       => /\ 0 <= client_hashrates[s].rate
          /\ client_hashrates[s].rate < 1000
          /\ (max_nonce_speed > 0
                => 1000 * client_hashrates[s].rate <= max_nonce_speed)

(***************************************************************************)
(* Properties of the broadcasts and of the submit path (checked under      *)
(* Spec).                                                                  *)
(***************************************************************************)
\* C22 -- No broadcast under the mutex: while state.lock is held, no handler
\* is suspended in broadcast_puzzle_reset (a verify request or an admin
\* handler at "broadcast").
C22_NoBroadcastUnderLock ==
    lock_locked
    => /\ \A r \in Requests : req[r].pc # "broadcast"
       /\ admin_pc.pc # "broadcast"

\* C23 (as stated) -- Stale seed first: a submission that passed the token
\* and ban checks and whose submittedSeed differs from current_seed is
\* answered 409 by the step that takes it in, whatever its traceData.
C23_StaleBeforeAntiSpoof ==
    [][\A r \in Requests :
          (/\ req[r].pc = "idle"
           /\ req'[r].pc # "idle"
           /\ req'[r].submittedSeed # None
           /\ req'[r].submittedSeed # current_seed)
          => req'[r].status = 409]_vars

\* C23 -- Check order of submit: of the submissions that passed the token
\* and ban checks, one whose traceData does not name the request ip is
\* answered 403 whatever its seed, and one whose traceData names the request
\* ip and whose submittedSeed differs from current_seed is answered 409;
\* both are answered in the step that takes them in, without touching the
\* lock.
C23_CheckOrder ==
    [][\A r \in Requests :
          (/\ req[r].pc = "idle"
           /\ req'[r].pc # "idle"
           /\ req'[r].submittedSeed # None)
          => /\ req'[r].traceData # req'[r].ip
                => /\ req'[r].pc = "done"
                   /\ req'[r].status = 403
                   /\ UNCHANGED lockVars
             /\ (req'[r].traceData = req'[r].ip
                 /\ req'[r].submittedSeed # current_seed)
                => /\ req'[r].pc = "done"
                   /\ req'[r].status = 409
                   /\ UNCHANGED lockVars]_vars

\* Request 1 named its ip and a retired seed and got 409 at once; request 2,
\* taken in later with the same retired seed and a trace that does not name
\* its ip, got 403.
C23_Witness ==
    /\ req[1].status = 409
    /\ ~req[1].waited
    /\ req[1].submittedSeed = 0
    /\ req[1].traceData = req[1].ip
    /\ req[2].status = 403
    /\ req[2].submittedSeed = 0
    /\ req[2].traceData # req[2].ip

\* C24 -- A failing submission changes nothing: the step in which a verify
\* request is answered 409, 403 (identity mismatch) or 400 (speed too high,
\* bad solution) leaves the seed, the difficulty fields, the EMA, the solve
\* history, the mining timer and the watcher tasks unchanged, issues no
\* invite code, starts no broadcast and sends no frame, and leaves the lock
\* free if the request held it (otherwise as it was).
C24_FailureChangesNothing ==
    [][\A r \in Requests :
          (/\ req[r].pc # "done"
           /\ req'[r].pc = "done"
           /\ \/ req'[r].status \in {409, 400}
              \/ req'[r].status = 403 /\ req'[r].detail = "Identity mismatch")
          => /\ UNCHANGED <<current_seed, difficultyVars, timerVars, taskVars,
                            puzzle_log, admin_pc, active_connections>>
             /\ req'[r].invite_code = None
             /\ \A q \in Requests :
                   req'[q].pc = "broadcast" => req[q].pc = "broadcast"
             /\ req[r].pc = "in_pool" => ~lock_locked'
             /\ req[r].pc # "in_pool" => lock_locked' = lock_locked]_vars

\* Request 1 was refused for its speed with the lock in its hands, request 2
\* was refused by the verifier after its stay in the worker pool; both while
\* a miner's timer was running, and the lock is free again.
C24_Witness ==
    /\ req[1].status = 400
    /\ req[1].detail = "Computation speed too high"
    /\ req[2].status = 400
    /\ req[2].detail = "Hash mismatch"
    /\ is_mining_active
    /\ ~lock_locked

(***************************************************************************)
(* Properties of the admission and of the disconnect cleanup (checked      *)
(* under SpecSession).                                                     *)
(***************************************************************************)
\* C25 -- First-connection admission order: the CAPTCHA verifier is called
\* for a socket only in a step that found its User-Agent valid, its ip not
\* banned and no connection registered for its ip; a socket on the
\* first-connection path is accepted and registered only with a passed
\* CAPTCHA; every token ever generated was generated for a socket on the
\* first-connection path whose CAPTCHA passed; and the steps of a socket on
\* the reconnect path generate no token.
C25_AdmissionOrder ==
    /\ [](\A s \in Sockets :
            /\ issued_ip[s] # None
               => ws[s].mode = "first" /\ ws[s].captcha = "passed"
            /\ (ws[s].mode = "first"
                /\ (s \in active_connections
                    \/ ws[s].pc \in {"accept_first", "send_token", "open"}))
               => ws[s].captcha = "passed"
            /\ ws[s].mode = "reconnect"
               => ws[s].captcha = "none" /\ issued_ip[s] = None)
    /\ [][\A s \in Sockets :
            /\ (ws[s].pc # "captcha" /\ ws'[s].pc = "captcha")
               => /\ ws'[s].ua_ok
                  /\ ws'[s].ip \notin banned_ips
                  /\ ~has_active_connection(ip_connections, ws'[s].ip)
            /\ (\E k \in Sockets : ~session_tokens[k].present
                                   /\ session_tokens'[k].present)
               \/ issued_ip' # issued_ip
               => \E k \in Sockets : /\ ws[k].pc = "accept_first"
                                     /\ ws[k].captcha = "passed"
                                     /\ ws'[k].pc = "send_token"
                                     /\ k \in active_connections'
                                     /\ ip_connections'[ws[k].ip] = k
                                     /\ session_tokens'[k].websocket = k]_vars

\* Socket 1 failed the CAPTCHA and was closed with no token generated for it;
\* socket 2 passed it and holds a token.
C25_Witness ==
    /\ ws[1].captcha = "failed"
    /\ ws[1].closed = 1008
    /\ issued_ip[1] = None
    /\ ~session_tokens[1].present
    /\ ws[2].captcha = "passed"
    /\ session_tokens[2].present
    /\ 2 \in active_connections

\* C26 -- Disconnect cleanup: the step in which the handler of an open
\* socket s terminates leaves s out of active_connections, client_hashrates
\* and active_miners (the timer paused when no miner is left), leaves every
\* token that was bound to s with is_connected = FALSE, disconnected_at = now
\* and no websocket, and leaves ip_connections without s.
C26_DisconnectCleanup ==
    [][\A s \in Sockets :
          (ws[s].pc = "open" /\ ws'[s].pc = "ended")
          => /\ s \notin active_connections'
             /\ ~client_hashrates'[s].present
             /\ s \notin active_miners'
             /\ active_miners' = {} => ~is_mining_active'
             /\ \A k \in Sockets :
                   (session_tokens[k].present /\ session_tokens[k].websocket = s)
                   => /\ ~session_tokens'[k].is_connected
                      /\ session_tokens'[k].disconnected_at = now
                      /\ session_tokens'[k].websocket = None
             /\ \A ip \in IPs : ip_connections'[ip] # s]_vars

NextBroadcast ==
    \/ \E s \in {2} : WsConnect(s, 2, TRUE, 0)
    \/ \E s \in {2} : WsCaptchaDone(s, TRUE)
    \/ \E s \in Sockets : WsAcceptedFirst(s)
    \/ \E s \in Sockets : WsTokenSent(s)
    \/ \E s \in Sockets : WsTokenSendFails(s)
    \/ \E s \in {1} : WsMiningStart(s)
    \/ \E r \in Requests, nonce \in Nonces :
          VerifyBegin(r, 1, 1, 1, nonce, current_seed, 1,
              Argon2d(nonce, current_seed, 1, 1, argon2_time_cost,
                      argon2_memory_cost, argon2_parallelism))
    \/ \E r \in Requests : VerifyAcquire(r)
    \/ \E r \in Requests : VerifyPoolDone(r)
    \/ \E r \in Requests : VerifyBroadcastDone(r)
    \/ \E w \in Tasks : WatcherWake(w)
    \/ \E w \in Tasks : WatcherAcquire(w)
    \/ AdminResetBegin
    \/ AdminResetAcquire
    \/ AdminResetBroadcastDone
    \/ Tick

SpecBroadcast == InitConnected /\ [][NextBroadcast]_vars

C29_OneWatcher ==
    /\ [](/\ \A w \in Tasks :
                wtask[w] \in {"sleep", "wait_lock"} => w = timeout_task
          /\ ~lock_locked => timeout_task = current_seed + 1)
    /\ [][/\ \A w \in Tasks : wtask[w] = "cancelled" => wtask'[w] = "cancelled"
          /\ (current_seed' # current_seed
              /\ puzzle_log'[current_seed].reset_by = "watcher")
             => /\ wtask[timeout_task] \in {"sleep", "wait_lock"}
                /\ wtask'[timeout_task] \in {"done", "cancelled"}
                /\ timeout_task' = timeout_task + 1
                /\ wtask'[timeout_task'] = "sleep"
                /\ ~lock_locked'
          /\ (lock_locked /\ ~lock_locked' /\ current_seed' = timeout_task)
             => /\ timeout_task' = timeout_task + 1
                /\ wtask'[timeout_task] \in {"done", "cancelled", "crashed"}
                /\ wtask'[timeout_task'] = "sleep"]_vars

\* The first seed was retired by a winning submission, which cancelled the
\* first watcher; the second by the second watcher, which ended in that
\* step; the third watcher sleeps and the lock is free.
C29_Witness ==
    /\ puzzle_log[0].reset_by = "verify"
    /\ puzzle_log[1].reset_by = "watcher"
    /\ wtask[1] = "cancelled"
    /\ wtask[2] \in {"done", "cancelled"}
    /\ wtask[3] = "sleep"
    /\ timeout_task = 3
    /\ ~lock_locked

(***************************************************************************)
(* Properties of the controller under timeouts (checked under              *)
(* SpecDifficulty, where the clock moves only with a timeout).             *)
(***************************************************************************)
\* C30 -- Starvation drives the difficulty down: a timeout-triggered
\* adjustment (adjust_difficulty(target_timeout), the step that moves the
\* clock) leaves difficulty_float at or below its previous value.
C30_TimeoutNeverRaises ==
    [][now' # now => difficulty_float' <= difficulty_float]_vars

(***************************************************************************)
(* The difficulty controller under the admin's target-time updates, and    *)
(* the bounded histories: solves are recorded, the aggregation loop        *)
(* samples the network hashrate, the admin posts /target-time.             *)
(***************************************************************************)
\* state.py: the aggregation loop's sleep and hashrate_stale_timeout.
aggregation_sleep == 5
hashrate_stale_timeout == 10
\* The aggregation loop is followed for the first MaxChartTime seconds.
MaxChartTime == 15

\* admin.py lines 190-223.  The two fields are validated and assigned one
\* after the other to target_time_min and target_time_max, which the
\* constructor does not define: the comparison of line 206 raises
\* AttributeError while one of them was never set.  self.target_time, which
\* the controller reads, is not written.
UpdateTargetTime(bmin, bmax) ==
    /\ admin_pc.pc = "idle"
    /\ LET minBad == bmin # None /\ bmin < 1
           mn1 == IF bmin # None /\ ~minBad THEN bmin ELSE target_time_min
           maxBad == ~minBad /\ bmax # None /\ bmax < 1
           mx1 == IF ~minBad /\ bmax # None /\ ~maxBad THEN bmax
                  ELSE target_time_max
           stops == minBad \/ maxBad \/ mn1 = None \/ mx1 = None
           swap == ~stops /\ mn1 > mx1
       IN /\ target_time_min' = IF swap THEN mx1 ELSE mn1
          /\ target_time_max' = IF swap THEN mn1 ELSE mx1
          /\ IF stops
             THEN UNCHANGED <<now, current_seed, lockVars, taskVars, req,
                              admin_pc, puzzle_log, timerVars, sessionVars,
                              historyVars>>
             ELSE AdminEnterLock(difficulty,
                     <<argon2_time_cost, argon2_memory_cost, argon2_parallelism>>)
    /\ UNCHANGED <<difficultyVars, max_nonce_speed, hmac_secret,
                   argon2_time_cost, argon2_memory_cost, argon2_parallelism,
                   ph, hashrate_chart_history, authVars, poolVars>>

\* routes.py lines 275-276 under the lock: the controller's part of a
\* winning submission that took solve_time seconds of mining.
RecordedSolve(solve_time) ==
    /\ ~lock_locked
    /\ now + solve_time <= MaxTime
    /\ now' = now + solve_time
    /\ adjust_difficulty(solve_time)
    /\ record_solve_time(solve_time)
    /\ UNCHANGED <<current_seed, configVars, lockVars, taskVars, req,
                   admin_pc, puzzle_log, timerVars, sessionVars, historyVars>>

\* state.py lines 461-482, one round of aggregation_loop: sleep,
\* get_network_hashrate (lines 432-454: the rates not older than
\* hashrate_stale_timeout are summed, the older entries are removed), the
\* append to the chart, and the NETWORK_HASHRATE broadcast.
AggregationRound ==
    /\ now + aggregation_sleep <= MaxChartTime
    /\ now' = now + aggregation_sleep
    /\ LET fresh == {c \in Sockets :
                        /\ client_hashrates[c].present
                        /\ now' - client_hashrates[c].timestamp
                              <= hashrate_stale_timeout}
           rate(c) == IF c \in fresh THEN client_hashrates[c].rate ELSE 0
           total == rate(1) + (IF MaxSockets >= 2 THEN rate(2) ELSE 0)
                       + (IF MaxSockets >= 3 THEN rate(3) ELSE 0)
       IN /\ client_hashrates' =
                [c \in Sockets |-> IF c \in fresh THEN client_hashrates[c]
                                   ELSE NoRate]
          /\ hashrate_chart_history' =
                AppendCapped(hashrate_chart_history, total, chart_history_max)
    /\ active_connections' = Pruned(active_connections)
    /\ UNCHANGED <<current_seed, difficultyVars, max_nonce_speed, hmac_secret,
                   argon2_time_cost, argon2_memory_cost, argon2_parallelism,
                   ph, target_time_min, target_time_max, authVars, poolVars,
                   lockVars, taskVars, req, admin_pc, puzzle_log, timerVars,
                   session_tokens, ip_connections, banned_ips, ws, kick_all_pc,
                   historyVars>>

\* Socket 1 is connected; the histories are empty, or one entry short of
\* the window of solve_history or of the charts' length.
InitTuning ==
    /\ now = 0
    /\ SetTimerInit
    /\ active_connections = {1}
    /\ session_tokens = generate_session_token([j \in Sockets |-> NoToken], 1, 1)
    /\ client_hashrates = [k \in Sockets |-> NoRate]
    /\ ip_connections = [i \in IPs |-> IF i = 1 THEN 1 ELSE None]
    /\ banned_ips = {}
    /\ ws = [k \in Sockets |->
               IF k = 1 THEN [NoWs EXCEPT !.pc = "open", !.ip = 1, !.token = 0,
                                          !.mode = "first", !.ua_ok = TRUE,
                                          !.captcha = "passed"]
               ELSE NoWs]
    /\ kick_all_pc = "idle"
    /\ issued_ip = [k \in Sockets |-> IF k = 1 THEN 1 ELSE None]
    /\ ever_revoked = {}
    /\ \E n \in {0, solve_history_maxlen - 1, chart_history_max - 1} :
          InitEngineFilled(initial_difficulty, initial_min_difficulty,
                           initial_max_difficulty, 0, n)
    /\ InitAuth
    /\ InitPoolStarted

NextTuning ==
    \/ \E bmin \in {None, 0, 30}, bmax \in {None, 0, 30} :
          UpdateTargetTime(bmin, bmax)
    \/ AdminResetBroadcastDone
    \/ \E solve_time \in {40, 150} : RecordedSolve(solve_time)
    \/ \E s \in {1}, rate \in {999} : WsHashrate(s, rate)
    \/ AggregationRound

SpecTuning == InitTuning /\ [][NextTuning]_vars

\* C31 -- After the admin has set a target time (target_time_min and
\* target_time_max are both set), every adjustment of the controller moves
\* difficulty_float by the step computed against a target time of the range
\* that was set, clamped to the difficulty range.
C31_StepAgainstNewTarget ==
    [][(/\ ema_solve_time' # ema_solve_time
        /\ target_time_min # None
        /\ target_time_max # None)
          => \E target \in target_time_min..target_time_max :
                LET raw == difficulty_float
                             + smooth_adjustment(target, ema_solve_time')
                IN difficulty_float' =
                      IF raw > 8 * max_difficulty THEN 8 * max_difficulty
                      ELSE IF raw < 8 * min_difficulty THEN 8 * min_difficulty
                      ELSE raw]_vars

\* A step from history h to hn is an append under the cap: below the cap
\* nothing is dropped, at the cap the oldest entry is, and the others keep
\* their order.
AppendedUnderCap(h, hn, cap) ==
    /\ Len(hn) >= 1
    /\ hn = IF Len(h) < cap THEN Append(h, hn[Len(hn)])
            ELSE Append(Tail(h), hn[Len(hn)])

\* C32 -- Bounded histories: solve_history never holds more than 5 entries,
\* solve_time_chart_history and hashrate_chart_history never more than 50,
\* and every step that changes one of them is an append that, when the
\* history is full, drops the oldest entry and keeps the rest in order.
C32_BoundedHistories ==
    /\ [](/\ Len(solve_history) <= solve_history_maxlen
          /\ Len(solve_time_chart_history) <= chart_history_max
          /\ Len(hashrate_chart_history) <= chart_history_max)
    /\ [][/\ solve_history' # solve_history
             => AppendedUnderCap(solve_history, solve_history',
                                 solve_history_maxlen)
          /\ solve_time_chart_history' # solve_time_chart_history
             => AppendedUnderCap(solve_time_chart_history,
                                 solve_time_chart_history', chart_history_max)
          /\ hashrate_chart_history' # hashrate_chart_history
             => AppendedUnderCap(hashrate_chart_history,
                                 hashrate_chart_history', chart_history_max)]_vars

\* From histories one entry short of full: two hashrate samples of 999 and
\* the solves of 40 s and 150 s were appended, the second append of each
\* history dropped its oldest entry.
C32_Witness ==
    /\ solve_history = <<target_time, target_time, target_time, 40, 150>>
    /\ Len(solve_time_chart_history) = chart_history_max
    /\ solve_time_chart_history[chart_history_max - 1] = 40
    /\ solve_time_chart_history[chart_history_max] = 150
    /\ solve_time_chart_history[1] = target_time
    /\ Len(hashrate_chart_history) = chart_history_max
    /\ hashrate_chart_history[chart_history_max - 1] = 999
    /\ hashrate_chart_history[chart_history_max] = 999
    /\ hashrate_chart_history[1] = 0

\* C33 -- Timer-state consistency: is_mining_active is true exactly when
\* active_miners is non-empty, and exactly when last_mining_state_change is
\* set.
C33_TimerStateConsistent ==
    /\ is_mining_active <=> active_miners # {}
    /\ is_mining_active <=> last_mining_state_change # None

\* C34 -- Registry consistency: while no WebSocket handler is between its
\* call and its receive loop or has a cleanup to run, and kick_all is not
\* running, every socket of ip_connections, of active_miners and of
\* client_hashrates is in active_connections, and the ip of every active
\* connection maps to it.
C34_RegistryConsistent ==
    (/\ \A s \in Sockets : ws[s].pc \in {"new", "ended"} \/ Receiving(s)
     /\ kick_all_pc = "idle")
    => /\ \A ip \in IPs : ip_connections[ip] # None
                             => ip_connections[ip] \in active_connections
       /\ active_miners \subseteq active_connections
       /\ \A s \in Sockets : client_hashrates[s].present
                                => s \in active_connections
       /\ \A s \in active_connections : ip_connections[ws[s].ip] = s

\* C35 -- A parameter update that is answered with an error changes no
\* parameter.  An admin handler that returns without reaching the lock
\* (the seed stays and the handler is idle again) is a rejected update.
C35_RejectedUpdateChangesNothing ==
    [][(/\ admin_pc.pc = "idle"
        /\ admin_pc' = admin_pc
        /\ current_seed' = current_seed)
          => UNCHANGED <<min_difficulty, max_difficulty, difficulty,
                         argon2_time_cost, argon2_memory_cost,
                         argon2_parallelism>>]_vars

\* C36 -- The Argon2 parameters that GET /puzzle advertises (those of the
\* hasher object ph) are the parameters that verify_solution passes to the
\* hash verifier.
C36_AdvertisedParametersVerify ==
    ph = <<argon2_time_cost, argon2_memory_cost, argon2_parallelism>>

\* C37 -- No invite code for a revoked token or a banned ip: in the state in
\* which a request of ip 1 with token 1 is issued its invite code, token 1 is
\* not revoked and the request's ip is not banned.
C37_NoInviteAfterRevocation ==
    [][\A r \in Requests :
          (req[r].invite_code = None /\ req'[r].invite_code # None)
          => /\ ~session_tokens[1].revoked
             /\ ~is_banned(req'[r].ip)]_vars

\* C38 -- Re-admission: a first-connection attempt is rejected as a
\* duplicate only while another handler of the same ip is still running;
\* once every earlier connection of the ip has closed and its handler has
\* ended, the ip's entry is gone and the attempt goes on to the CAPTCHA.
C38_ReadmittedAfterClose ==
    [][\A s \in Sockets :
          (/\ ws[s].pc = "new"
           /\ ws'[s].pc = "ended"
           /\ ws'[s].reason = "Duplicate connection from same IP")
          => \E o \in Sockets \ {s} :
                /\ ws[o].ip = ws'[s].ip
                /\ ws[o].pc \notin {"new", "ended"}]_vars

(***************************************************************************)
(* The puzzle engine with a fair scheduler: the event loop runs every task *)
(* that is ready, so a task the lock is handed to takes it, and (the       *)
(* worker pool and the socket sends return) a handler suspended in         *)
(* run_in_executor or in a broadcast is resumed.                           *)
(***************************************************************************)
NextFair ==
    \/ \E r \in Requests, nonce \in Nonces, wrong \in BOOLEAN :
          VerifyBegin(r, 1, 1, 1, nonce, current_seed, 1,
              (Argon2d(nonce, current_seed, 1, 1, argon2_time_cost,
                       argon2_memory_cost, argon2_parallelism)
                 + (IF wrong THEN 1 ELSE 0)) % HashSpace)
    \/ \E r \in Requests : VerifyAcquire(r)
    \/ \E r \in Requests : VerifyPoolDone(r)
    \/ \E r \in Requests : VerifyBroadcastDone(r)
    \/ \E w \in Tasks : WatcherWake(w)
    \/ \E w \in Tasks : WatcherAcquire(w)
    \/ AdminResetBegin
    \/ AdminResetAcquire
    \/ AdminResetBroadcastDone
    \/ \E s \in {1} : WsMiningStart(s)
    \/ Tick

SpecFair ==
    /\ InitConnected
    /\ [][NextFair]_vars
    /\ \A r \in Requests : /\ WF_vars(VerifyAcquire(r))
                           /\ WF_vars(VerifyPoolDone(r))
                           /\ WF_vars(VerifyBroadcastDone(r))
    /\ \A w \in Tasks : WF_vars(WatcherAcquire(w))
    /\ WF_vars(AdminResetAcquire)
    /\ WF_vars(AdminResetBroadcastDone)

NextWatchdog ==
    \/ \E r \in Requests, wrong \in BOOLEAN :
          VerifyBegin(r, 1, 1, 1, 0, current_seed, 1,
              (Argon2d(0, current_seed, 1, 1, argon2_time_cost,
                       argon2_memory_cost, argon2_parallelism)
                 + (IF wrong THEN 1 ELSE 0)) % HashSpace)
    \/ \E r \in Requests : VerifyAcquire(r)
    \/ \E r \in Requests : VerifyPoolDone(r)
    \/ \E r \in Requests : VerifyBroadcastDone(r)
    \/ \E w \in Tasks : WatcherWake(w)
    \/ \E w \in Tasks : WatcherAcquire(w)
    \/ \E s \in {2} : WsConnect(s, 2, TRUE, 0)
    \/ \E s \in {2} : WsCaptchaDone(s, TRUE)
    \/ \E s \in {2} : WsAcceptedFirst(s)
    \/ \E s \in {2} : WsTokenSent(s)
    \/ \E s \in Sockets : WsMiningStart(s)
    \/ KickAllBegin
    \/ KickAllFinish
    \/ Tick

SpecWatchdog == InitConnected /\ [][NextWatchdog]_vars

\* C40 -- Watchdog liveness: at every moment the task that timeout_task
\* names is a live watcher (asleep, or waiting for the lock), so a watcher
\* that ends has started its successor.
C40_WatcherAlwaysLive ==
    /\ timeout_task # None
    /\ wtask[timeout_task] \in {"sleep", "wait_lock"}

=============================================================================
